---- MODULE Spec2Model ----
(***************************************************************************)
(* A model of the json_parser crate: the tokenizer (src/src/tokenizer.rs), *)
(* the recursive-descent parser (src/src/parser.rs), the value model       *)
(* (src/src/value.rs, src/src/macros.rs) and the generator                 *)
(* (src/src/generator.rs).                                                 *)
(*                                                                         *)
(* Text is a sequence of Unicode scalar values (Rust `char`s as numbers).  *)
(* A Peekable<Chars> is the sequence of the characters not yet consumed.   *)
(* A JsonResult<T> is a record with status "Ok" (field val), "Err" (field  *)
(* err) or "Panic" (the call unwound instead of returning).                *)
(***************************************************************************)
EXTENDS Integers, Sequences, FiniteSets

VARIABLES
    json,             \* the &str handed to Tokenizer::new / parse
    source,           \* Tokenizer.source: the characters not yet consumed
    prev,             \* the value of source when the last next() was called
    token,            \* what the last Tokenizer::next() returned
    parsed,           \* what parse(..) returned
    jsonValue,        \* the JsonValue handed to the generator
    pairs,            \* the key => value pairs of an object! invocation, as written
    pending,          \* those of them not yet inserted
    gen,              \* the Generator struct
    text,             \* the String returned by Generator::value / stringify, or Panic
    overflow_checks,  \* build profile: TRUE = integer overflow panics, FALSE = it wraps
    pc                \* position of the driving program

vars == <<json, source, prev, token, parsed, jsonValue, pairs, pending, gen, text,
          overflow_checks, pc>>

(***************************************************************************)
(* Characters                                                              *)
(***************************************************************************)
Ch == [ bs |-> 8, tab |-> 9, lf |-> 10, vt |-> 11, ff |-> 12, cr |-> 13,
        space |-> 32, quote |-> 34, plus |-> 43, comma |-> 44, minus |-> 45,
        dot |-> 46, slash |-> 47, zero |-> 48, nine |-> 57, colon |-> 58,
        upE |-> 69, bracketOn |-> 91, backslash |-> 92, bracketOff |-> 93,
        a |-> 97, e |-> 101, f |-> 102, n |-> 110, t |-> 116, z |-> 122,
        braceOn |-> 123, braceOff |-> 125, nbsp |-> 160 ]

\* '0'..='9'
IsDigit(c) == c >= Ch.zero /\ c <= Ch.nine

\* char::is_whitespace: the Unicode White_Space property
IsWhitespace(c) ==
    \/ c >= 9 /\ c <= 13
    \/ c \in {32, 133, 160, 5760, 8232, 8233, 8239, 8287, 12288}
    \/ c >= 8192 /\ c <= 8202

\* The literals of the source, as character sequences.
Lit == [ true   |-> <<116, 114, 117, 101>>,
         false  |-> <<102, 97, 108, 115, 101>>,
         null   |-> <<110, 117, 108, 108>>,
         inf    |-> <<105, 110, 102>>,
         NaN    |-> <<78, 97, 78>>,
         Comma  |-> <<67, 111, 109, 109, 97>>,
         Colon  |-> <<67, 111, 108, 111, 110>>,
         BracketOn  |-> <<66, 114, 97, 99, 107, 101, 116, 79, 110>>,
         BracketOff |-> <<66, 114, 97, 99, 107, 101, 116, 79, 102, 102>>,
         BraceOn    |-> <<66, 114, 97, 99, 101, 79, 110>>,
         BraceOff   |-> <<66, 114, 97, 99, 101, 79, 102, 102>>,
         String     |-> <<83, 116, 114, 105, 110, 103>>,
         Number     |-> <<78, 117, 109, 98, 101, 114>>,
         Boolen     |-> <<66, 111, 111, 108, 101, 110>>,
         Null       |-> <<78, 117, 108, 108>> ]

(***************************************************************************)
(* Results and errors (src/src/lib.rs, src/src/error.rs)                   *)
(***************************************************************************)
\* `body` where x = e: Where({body : x \in {e}})
Where(S) == CHOOSE v \in S : TRUE

Ok(v) == [status |-> "Ok", val |-> v]
Err(e) == [status |-> "Err", err |-> e]
Panic == [status |-> "Panic"]
None == [status |-> "None"]

UnexpectedToken(msg) == [kind |-> "UnexpectedToken", msg |-> msg]
UnexpectedEndOfJson == [kind |-> "UnexpectedEndOfJson"]
UnexpectedCharacter(c) == [kind |-> "UnexpectedCharacter", ch |-> c]
InvalidNumber == [kind |-> "InvalidNumber"]

(***************************************************************************)
(* f64.  A finite double is held as its sign and the shortest decimal that *)
(* reads back as the same double, (-1)^neg * digits * 10^exp: `digits` is  *)
(* the sequence of its decimal digits, without zeros at either end (empty  *)
(* for zero, and then exp = 0).  This is the decimal that Rust prints.     *)
(***************************************************************************)
RECURSIVE Normalize(_, _)
Normalize(mant, exp) ==
    IF mant = 0 THEN [mant |-> 0, exp |-> 0]
    ELSE IF mant % 10 = 0 THEN Normalize(mant \div 10, exp + 1)
    ELSE [mant |-> mant, exp |-> exp]

RECURSIVE NatDigits(_)
NatDigits(k) ==
    IF k < 10 THEN <<Ch.zero + k>>
    ELSE Append(NatDigits(k \div 10), Ch.zero + (k % 10))

RECURSIVE DigitsToNat(_)
DigitsToNat(ds) ==
    IF ds = <<>> THEN 0
    ELSE 10 * DigitsToNat(SubSeq(ds, 1, Len(ds) - 1)) + (ds[Len(ds)] - Ch.zero)

\* The double of an integer of up to nine digits times a power of ten
F64(neg, mant, exp) ==
    Where({[inf |-> FALSE, neg |-> neg,
            digits |-> IF nm.mant = 0 THEN <<>> ELSE NatDigits(nm.mant), exp |-> nm.exp]
           : nm \in {Normalize(mant, exp)}})

Infinity(neg) == [inf |-> TRUE, neg |-> neg, digits |-> <<>>, exp |-> 0]

\* f64's PartialEq: -0.0 == 0.0
F64Eq(x, y) == (~x.inf /\ ~y.inf /\ x.digits = <<>> /\ y.digits = <<>>) \/ x = y

Repeat(c, k) == IF k <= 0 THEN <<>> ELSE [i \in 1..k |-> c]

RECURSIVE Pow10(_)
Pow10(k) == IF k <= 0 THEN 1 ELSE 10 * Pow10(k - 1)

\* The digits at the front of s: those before the first place i that holds no digit
TakeDigits(s) ==
    SubSeq(s, 1, (CHOOSE i \in 1..(Len(s) + 1) :
                     /\ i > Len(s) \/ ~IsDigit(s[i])
                     /\ \A j \in 1..(i - 1) : IsDigit(s[j])) - 1)

Drop(s, k) == SubSeq(s, k + 1, Len(s))

\* ds without the zeros at its front
StripZeros(ds) ==
    Drop(ds, (CHOOSE i \in 1..(Len(ds) + 1) :
                 /\ i > Len(ds) \/ ds[i] # Ch.zero
                 /\ \A j \in 1..(i - 1) : ds[j] = Ch.zero) - 1)

(***************************************************************************)
(* Natural numbers of any size, as the standard library's decimal parser   *)
(* and printer compute with them (core::num::bignum): limbs in base 1000,  *)
(* the least significant first and the most significant not zero.          *)
(***************************************************************************)
\* The number of places of a up to the last that does not hold z
Top(a, z) ==
    Len(a) - Cardinality({k \in 1..Len(a) : \A j \in (Len(a) - k + 1)..Len(a) : a[j] = z})

\* The columns cols[lo..hi] brought into 0..999, the carry passed upwards: the
\* lower half first, its carry into the upper half
RECURSIVE Carry(_, _, _, _)
Carry(cols, lo, hi, cin) ==
    IF lo = hi
    THEN [limbs |-> <<(cols[lo] + cin) % 1000>>, carry |-> (cols[lo] + cin) \div 1000]
    ELSE Where({[limbs |-> x.low \o x.high.limbs, carry |-> x.high.carry]
                : x \in {[low |-> low.limbs,
                          high |-> Carry(cols, (lo + hi) \div 2 + 1, hi, low.carry)]
                : low \in {Carry(cols, lo, (lo + hi) \div 2, cin)}}})

\* The number whose limbs, not yet in 0..999, are cols
Limbs(cols) ==
    IF cols = <<>> THEN <<>>
    ELSE Where({SubSeq(sum, 1, Top(sum, 0))
                : sum \in {Carry(cols \o <<0, 0, 0>>, 1, Len(cols) + 3, 0).limbs}})

Add(a, b) ==
    Limbs([i \in 1..(IF Len(a) >= Len(b) THEN Len(a) ELSE Len(b)) |->
              (IF i <= Len(a) THEN a[i] ELSE 0) + (IF i <= Len(b) THEN b[i] ELSE 0)])

\* a - b, for a >= b
Sub(a, b) ==
    Limbs([i \in 1..Len(a) |-> a[i] - (IF i <= Len(b) THEN b[i] ELSE 0)])

\* Ordering as a number: -1 (Less), 0 (Equal) or 1 (Greater) as a is to b
Cmp(a, b) ==
    IF a = b THEN 0
    ELSE IF Len(a) # Len(b) THEN (IF Len(a) > Len(b) THEN 1 ELSE -1)
    ELSE IF \E i \in 1..Len(a) : a[i] > b[i] /\ \A j \in (i + 1)..Len(a) : a[j] = b[j]
         THEN 1
    ELSE -1

\* a * k for k up to 2^20
MulSmall(a, k) == Limbs([i \in 1..Len(a) |-> a[i] * k])

\* a * 2^n, a itself for n <= 0
RECURSIVE Times2(_, _)
Times2(a, n) ==
    IF a = <<>> \/ n <= 0 THEN a
    ELSE Times2(MulSmall(a, IF n >= 20 THEN 1048576 ELSE 2),
                IF n >= 20 THEN n - 20 ELSE n - 1)

\* a * 10^n, a itself for n <= 0
Times10(a, n) ==
    IF a = <<>> \/ n <= 0 THEN a ELSE Repeat(0, n \div 3) \o MulSmall(a, Pow10(n % 3))

(***************************************************************************)
(* flt2dec (strategy::dragon::format_shortest): the shortest decimal that  *)
(* lies between the double and its two neighbours and is nearest to it.    *)
(***************************************************************************)
\* The digit generation loop.  s.mant / s.scale is what is left of the value,
\* s.minus / s.scale and s.plus / s.scale the distances to the middle of the
\* neighbours, s.rounding the Ordering that a comparison has to be below (Greater
\* when the ends of the interval count, else Equal).  One turn takes the digit d
\* off s.mant; the loop ends when the digits, with the last of them as it is
\* (down) or raised (up), spell a decimal inside the interval, and else goes on
\* with "mant *= 10; minus *= 10; plus *= 10".
RECURSIVE GenerateDigits(_)
GenerateDigits(s) ==
    IF s.down \/ s.up THEN s
    ELSE GenerateDigits(
             Where({IF t.down \/ t.up THEN t
                    ELSE [t EXCEPT !.mant = MulSmall(@, 10), !.minus = MulSmall(@, 10),
                                   !.plus = MulSmall(@, 10)]
                    : t \in {[s EXCEPT !.mant = r.mant,
                                       !.digits = Append(@, r.d),
                                       !.down = Cmp(r.mant, s.minus) < s.rounding,
                                       !.up = Cmp(s.scale, Add(r.mant, s.plus)) < s.rounding]
                    : r \in {[d |-> d, mant |-> Sub(s.mant, MulSmall(s.scale, d))]
                    : d \in {Cardinality({c \in 1..9 :
                                             Cmp(MulSmall(s.scale, c), s.mant) <= 0})}}}}))

\* The decimal that prints the double which flt2dec::decode has taken apart into d:
\* the value d.mant and the distances d.minus and d.plus in units of 2^d.exp,
\* d.inclusive when the ends of the interval count.  k is the estimate of the
\* decimal exponent: the double is below 10^(k + 1).
FormatShortest(neg, d, k) ==
    Where({[inf |-> FALSE, neg |-> neg,
            digits |-> [i \in 1..Top(g.digits, 0) |-> Ch.zero + g.digits[i]],
            exp |-> g.k - Top(g.digits, 0)]
           \* "rounding up if we stop in the middle of digits"; round_up: the last
           \* digit below 9 raised and those after it zero, or 1 and zeros and one
           \* more digit when there is none
           : g \in {IF ~(f.up /\ (~f.down \/ Cmp(MulSmall(f.mant, 2), f.scale) >= 0))
                    THEN [digits |-> f.digits, k |-> f.k]
                    ELSE IF Top(f.digits, 9) = 0
                         THEN [digits |-> <<1>> \o Repeat(0, Len(f.digits)), k |-> f.k + 1]
                    ELSE [digits |-> [i \in 1..Len(f.digits) |->
                                         IF i < Top(f.digits, 9) THEN f.digits[i]
                                         ELSE IF i = Top(f.digits, 9) THEN f.digits[i] + 1
                                         ELSE 0],
                          k |-> f.k]
           \* "fixup when mant + plus > scale (or >=)"
           : f \in {GenerateDigits(
                        IF Cmp(s.scale, Add(s.mant, s.plus)) < s.rounding
                        THEN [s EXCEPT !.k = @ + 1]
                        ELSE [s EXCEPT !.mant = MulSmall(@, 10), !.minus = MulSmall(@, 10),
                                       !.plus = MulSmall(@, 10)])
           \* mant, minus, plus and scale with 2^d.exp and 10^k multiplied in
           : s \in {[mant |-> Times10(Times2(d.mant, d.exp), -k),
                     minus |-> Times10(Times2(d.minus, d.exp), -k),
                     plus |-> Times10(Times2(d.plus, d.exp), -k),
                     scale |-> Times10(Times2(<<1>>, -d.exp), k),
                     rounding |-> IF d.inclusive THEN 1 ELSE 0,
                     digits |-> <<>>, k |-> k, down |-> FALSE, up |-> FALSE]}}}})

(***************************************************************************)
(* dec2flt (str::parse::<f64>): the double nearest to a decimal, the even  *)
(* one of two that are equally near.                                       *)
(***************************************************************************)
\* The first nine significant digits, as a number of nine digits
Leading(sig) ==
    IF Len(sig) >= 9 THEN DigitsToNat(SubSeq(sig, 1, 9))
    ELSE DigitsToNat(sig) * Pow10(9 - Len(sig))

\* Long division in base 64: st.r / den is what is left to divide, st.m the digits
\* of the quotient so far and st.n the number of digits to come.  The result is
\* the quotient rounded to an integer, half of one to the even side.
RECURSIVE RoundedQuotient(_, _)
RoundedQuotient(st, den) ==
    IF st.n <= 0
    THEN (IF Cmp(MulSmall(st.r, 2), den)
                 + (IF st.m # <<>> /\ st.m[1] % 2 = 1 THEN 1 ELSE 0) > 0
          THEN Add(st.m, <<1>>) ELSE st.m)
    ELSE RoundedQuotient(
             Where({[r |-> Sub(x.r, MulSmall(den, x.d)),
                     m |-> Add(MulSmall(st.m, 64), Limbs(<<x.d>>)),
                     n |-> st.n - 1]
                    : x \in {[r |-> r,
                              d |-> Cardinality({c \in 1..63 :
                                                    Cmp(MulSmall(den, c), r) <= 0})]
                    : r \in {MulSmall(st.r, 64)}}}),
             den)

\* The double nearest to sig * 10^exp, where e10 is the decimal exponent of the
\* first digit of sig
Nearest(neg, sig, exp, e10) ==
    Where({IF y.m = <<>> THEN F64(neg, 0, 0)
           ELSE IF y.q > 971 THEN Infinity(neg)
           \* flt2dec::decode: the neighbour below a power of two is half as far
           \* as the one above; the ends of the interval count when the mantissa
           \* is even (integer_decode shifts the mantissa of a subnormal, which
           \* makes it even)
           ELSE FormatShortest(neg,
                    IF y.m = y.minnorm
                    THEN [mant |-> MulSmall(y.m, 4), minus |-> <<1>>, plus |-> <<2>>,
                          exp |-> y.q - 2, inclusive |-> TRUE]
                    ELSE [mant |-> MulSmall(y.m, 2), minus |-> <<1>>, plus |-> <<1>>,
                          exp |-> y.q - 1,
                          inclusive |-> Cmp(y.m, y.minnorm) < 0 \/ y.m[1] % 2 = 0],
                    e10 + 1)
           \* a mantissa rounded up to 2^53 is 2^52 with the next exponent
           : y \in {IF x.m = MulSmall(x.minnorm, 2)
                    THEN [x EXCEPT !.m = x.minnorm, !.q = @ + 1] ELSE x
           \* m = sig * 10^exp / 2^q rounded, of 53 binary digits at most: nine
           \* digits in base 64 after the first place
           : x \in {[m |-> RoundedQuotient([r |-> Times2(c.num, -c.q), m |-> <<>>, n |-> 9],
                                           Times2(Times2(c.den, c.q), 54)),
                     q |-> c.q, minnorm |-> Times2(<<1>>, 52)]
           \* q: the exponent of the last of 53 binary digits, -1074 for a subnormal
           : c \in {[num |-> b.num, den |-> b.den,
                     q |-> IF b.e2 - 52 < -1074 THEN -1074 ELSE b.e2 - 52]
           \* e2 = floor(log2(sig * 10^exp)), which the estimate misses by 2 at most
           : b \in {[num |-> a.num, den |-> a.den,
                     e2 |-> a.est - 4
                            + Cardinality({e \in (a.est - 3)..(a.est + 3) :
                                  Cmp(Times2(a.den, e), Times2(a.num, -e)) <= 0})]
           \* sig * 10^exp = num / den; est: the binary digits of the first nine
           \* decimal digits and those of the power of ten, log2(10) = 3.321928...
           : a \in {[num |-> Times10([i \in 1..((Len(sig) + 2) \div 3) |->
                                         DigitsToNat(SubSeq(sig,
                                             IF Len(sig) - 3 * i + 1 >= 1
                                             THEN Len(sig) - 3 * i + 1 ELSE 1,
                                             Len(sig) - 3 * i + 3))], exp),
                     den |-> Times10(<<1>>, -exp),
                     est |-> 26 + Cardinality({p \in {134217728, 268435456, 536870912} :
                                                  Leading(sig) >= p})
                             + ((e10 - 8) * 3321928) \div 1000000]}}}}}})

\* The rounding of the decimal sig * 10^exp, sig without zeros in front, to a double
RoundSig(neg, sig, exp) ==
    IF sig = <<>> THEN F64(neg, 0, 0)
    ELSE IF Len(sig) + exp - 1 > 308 THEN Infinity(neg)
    ELSE IF Len(sig) + exp - 1 < -324 THEN F64(neg, 0, 0)
    ELSE IF Len(sig) <= 15 /\ Len(sig) + exp - 1 >= -307 /\ Len(sig) + exp - 1 <= 307
         \* a decimal of up to 15 digits in the range of the normal doubles is the
         \* shortest decimal of the double nearest to it
         THEN [inf |-> FALSE, neg |-> neg, digits |-> SubSeq(sig, 1, Top(sig, Ch.zero)),
               exp |-> exp + (Len(sig) - Top(sig, Ch.zero))]
    \* Decimal::MAX_DIGITS: of the digits after the 768th the parser keeps only
    \* whether one of them is not zero
    ELSE Where({Nearest(neg, t.sig, t.exp, Len(sig) + exp - 1)
                : t \in {IF Len(sig) <= 768 THEN [sig |-> sig, exp |-> exp]
                         ELSE IF \E i \in 769..Len(sig) : sig[i] # Ch.zero
                              THEN [sig |-> Append(SubSeq(sig, 1, 768), Ch.zero + 1),
                                    exp |-> exp + (Len(sig) - 769)]
                         ELSE [sig |-> SubSeq(sig, 1, 768),
                               exp |-> exp + (Len(sig) - 768)]}})

Round(neg, digits, exp) == RoundSig(neg, StripZeros(digits), exp)

\* The digits at the front of s, and what follows them
SplitDigits(s) == [digits |-> TakeDigits(s), rest |-> Drop(s, Len(TakeDigits(s)))]

\* parse_scientific: "if exponent < 0x10000 { exponent = 10 * exponent + digit }"
\* for every digit.  Zeros in front leave the accumulator at 0; after five more
\* digits it holds 10000 at least, and after a sixth more than 0x10000 = 65536.
ExpAbs(ds) ==
    IF Len(StripZeros(ds)) <= 5 THEN DigitsToNat(StripZeros(ds))
    ELSE IF DigitsToNat(SubSeq(StripZeros(ds), 1, 5)) < 65536
         THEN DigitsToNat(SubSeq(StripZeros(ds), 1, 6))
    ELSE DigitsToNat(SubSeq(StripZeros(ds), 1, 5))

\* str::parse::<f64>: Sign? ( Digit+ | Digit+ '.' Digit* | Digit* '.' Digit+ ) Exp?
\* with Exp = [eE] Sign? Digit+.  ("inf", "infinity" and "nan" cannot be spelt with
\* the characters read_number accumulates.)
ExponentDigits(neg, digits, nfrac, expNeg, e) ==
    IF e.digits = <<>> \/ e.rest # <<>> THEN Err(InvalidNumber)
    ELSE Ok(Round(neg, digits,
                  (IF expNeg THEN -ExpAbs(e.digits) ELSE ExpAbs(e.digits)) - nfrac))

ParseScientific(neg, digits, nfrac, r) ==
    ExponentDigits(neg, digits, nfrac, r # <<>> /\ Head(r) = Ch.minus,
                   SplitDigits(IF r # <<>> /\ Head(r) \in {Ch.minus, Ch.plus}
                               THEN Tail(r) ELSE r))

ParseExponent(neg, int, f) ==
    IF Len(int) + Len(f.digits) = 0 THEN Err(InvalidNumber)
    ELSE IF f.rest # <<>> /\ Head(f.rest) \in {Ch.e, Ch.upE}
         THEN ParseScientific(neg, int \o f.digits, Len(f.digits), Tail(f.rest))
    ELSE IF f.rest # <<>> THEN Err(InvalidNumber)
    ELSE Ok(Round(neg, int \o f.digits, -Len(f.digits)))

ParseFraction(neg, i) ==
    ParseExponent(neg, i.digits,
                  IF i.rest # <<>> /\ Head(i.rest) = Ch.dot THEN SplitDigits(Tail(i.rest))
                  ELSE [digits |-> <<>>, rest |-> i.rest])

ParseF64(lexeme) ==
    ParseFraction(lexeme # <<>> /\ Head(lexeme) = Ch.minus,
                  SplitDigits(IF lexeme # <<>> /\ Head(lexeme) \in {Ch.minus, Ch.plus}
                              THEN Tail(lexeme) ELSE lexeme))

Sign(x) == IF x.neg THEN <<Ch.minus>> ELSE <<>>

\* The decimal expansion of ds * 10^(-k), k > 0
Fraction(ds, k) ==
    IF Len(ds) > k
    THEN SubSeq(ds, 1, Len(ds) - k) \o <<Ch.dot>> \o SubSeq(ds, Len(ds) - k + 1, Len(ds))
    ELSE <<Ch.zero, Ch.dot>> \o Repeat(Ch.zero, k - Len(ds)) \o ds

\* f64's Display (f64::to_string): the shortest decimal, never in exponent form.
F64ToString(x) ==
    IF x.inf THEN Sign(x) \o Lit.inf
    ELSE IF x.digits = <<>> THEN Sign(x) \o <<Ch.zero>>
    ELSE IF x.exp >= 0 THEN Sign(x) \o x.digits \o Repeat(Ch.zero, x.exp)
    ELSE Sign(x) \o Fraction(x.digits, -x.exp)

(***************************************************************************)
(* Debug formatting ({:?}) of f64, str and Token, as the standard library  *)
(* does it.                                                                *)
(***************************************************************************)
RECURSIVE HexDigits(_)
HexDigit(d) == IF d < 10 THEN Ch.zero + d ELSE Ch.a + (d - 10)
HexDigits(k) ==
    IF k < 16 THEN <<HexDigit(k)>> ELSE Append(HexDigits(k \div 16), HexDigit(k % 16))

IntToString(k) == IF k < 0 THEN <<Ch.minus>> \o NatDigits(-k) ELSE NatDigits(k)

\* core::unicode::printable and core::unicode::unicode_data::grapheme_extend are
\* tables that the standard library generates from the Unicode Character Database.
\* The two tables below are generated the same way from Unicode 17.0.0, the
\* version of the standard library that the crate is built with.  NotPrintable:
\* the ranges of the code points of the general categories Cc, Cf, Cs, Co, Cn,
\* Zl, Zp and Zs, other than the space.
NotPrintable ==
    <<<<0, 31>>, <<127, 160>>, <<173, 173>>, <<888, 889>>, <<896, 899>>,
      <<907, 907>>, <<909, 909>>, <<930, 930>>, <<1328, 1328>>, <<1367, 1368>>,
      <<1419, 1420>>, <<1424, 1424>>, <<1480, 1487>>, <<1515, 1518>>,
      <<1525, 1541>>, <<1564, 1564>>, <<1757, 1757>>, <<1806, 1807>>,
      <<1867, 1868>>, <<1970, 1983>>, <<2043, 2044>>, <<2094, 2095>>,
      <<2111, 2111>>, <<2140, 2141>>, <<2143, 2143>>, <<2155, 2159>>,
      <<2192, 2198>>, <<2274, 2274>>, <<2436, 2436>>, <<2445, 2446>>,
      <<2449, 2450>>, <<2473, 2473>>, <<2481, 2481>>, <<2483, 2485>>,
      <<2490, 2491>>, <<2501, 2502>>, <<2505, 2506>>, <<2511, 2518>>,
      <<2520, 2523>>, <<2526, 2526>>, <<2532, 2533>>, <<2559, 2560>>,
      <<2564, 2564>>, <<2571, 2574>>, <<2577, 2578>>, <<2601, 2601>>,
      <<2609, 2609>>, <<2612, 2612>>, <<2615, 2615>>, <<2618, 2619>>,
      <<2621, 2621>>, <<2627, 2630>>, <<2633, 2634>>, <<2638, 2640>>,
      <<2642, 2648>>, <<2653, 2653>>, <<2655, 2661>>, <<2679, 2688>>,
      <<2692, 2692>>, <<2702, 2702>>, <<2706, 2706>>, <<2729, 2729>>,
      <<2737, 2737>>, <<2740, 2740>>, <<2746, 2747>>, <<2758, 2758>>,
      <<2762, 2762>>, <<2766, 2767>>, <<2769, 2783>>, <<2788, 2789>>,
      <<2802, 2808>>, <<2816, 2816>>, <<2820, 2820>>, <<2829, 2830>>,
      <<2833, 2834>>, <<2857, 2857>>, <<2865, 2865>>, <<2868, 2868>>,
      <<2874, 2875>>, <<2885, 2886>>, <<2889, 2890>>, <<2894, 2900>>,
      <<2904, 2907>>, <<2910, 2910>>, <<2916, 2917>>, <<2936, 2945>>,
      <<2948, 2948>>, <<2955, 2957>>, <<2961, 2961>>, <<2966, 2968>>,
      <<2971, 2971>>, <<2973, 2973>>, <<2976, 2978>>, <<2981, 2983>>,
      <<2987, 2989>>, <<3002, 3005>>, <<3011, 3013>>, <<3017, 3017>>,
      <<3022, 3023>>, <<3025, 3030>>, <<3032, 3045>>, <<3067, 3071>>,
      <<3085, 3085>>, <<3089, 3089>>, <<3113, 3113>>, <<3130, 3131>>,
      <<3141, 3141>>, <<3145, 3145>>, <<3150, 3156>>, <<3159, 3159>>,
      <<3163, 3163>>, <<3166, 3167>>, <<3172, 3173>>, <<3184, 3190>>,
      <<3213, 3213>>, <<3217, 3217>>, <<3241, 3241>>, <<3252, 3252>>,
      <<3258, 3259>>, <<3269, 3269>>, <<3273, 3273>>, <<3278, 3284>>,
      <<3287, 3291>>, <<3295, 3295>>, <<3300, 3301>>, <<3312, 3312>>,
      <<3316, 3327>>, <<3341, 3341>>, <<3345, 3345>>, <<3397, 3397>>,
      <<3401, 3401>>, <<3408, 3411>>, <<3428, 3429>>, <<3456, 3456>>,
      <<3460, 3460>>, <<3479, 3481>>, <<3506, 3506>>, <<3516, 3516>>,
      <<3518, 3519>>, <<3527, 3529>>, <<3531, 3534>>, <<3541, 3541>>,
      <<3543, 3543>>, <<3552, 3557>>, <<3568, 3569>>, <<3573, 3584>>,
      <<3643, 3646>>, <<3676, 3712>>, <<3715, 3715>>, <<3717, 3717>>,
      <<3723, 3723>>, <<3748, 3748>>, <<3750, 3750>>, <<3774, 3775>>,
      <<3781, 3781>>, <<3783, 3783>>, <<3791, 3791>>, <<3802, 3803>>,
      <<3808, 3839>>, <<3912, 3912>>, <<3949, 3952>>, <<3992, 3992>>,
      <<4029, 4029>>, <<4045, 4045>>, <<4059, 4095>>, <<4294, 4294>>,
      <<4296, 4300>>, <<4302, 4303>>, <<4681, 4681>>, <<4686, 4687>>,
      <<4695, 4695>>, <<4697, 4697>>, <<4702, 4703>>, <<4745, 4745>>,
      <<4750, 4751>>, <<4785, 4785>>, <<4790, 4791>>, <<4799, 4799>>,
      <<4801, 4801>>, <<4806, 4807>>, <<4823, 4823>>, <<4881, 4881>>,
      <<4886, 4887>>, <<4955, 4956>>, <<4989, 4991>>, <<5018, 5023>>,
      <<5110, 5111>>, <<5118, 5119>>, <<5760, 5760>>, <<5789, 5791>>,
      <<5881, 5887>>, <<5910, 5918>>, <<5943, 5951>>, <<5972, 5983>>,
      <<5997, 5997>>, <<6001, 6001>>, <<6004, 6015>>, <<6110, 6111>>,
      <<6122, 6127>>, <<6138, 6143>>, <<6158, 6158>>, <<6170, 6175>>,
      <<6265, 6271>>, <<6315, 6319>>, <<6390, 6399>>, <<6431, 6431>>,
      <<6444, 6447>>, <<6460, 6463>>, <<6465, 6467>>, <<6510, 6511>>,
      <<6517, 6527>>, <<6572, 6575>>, <<6602, 6607>>, <<6619, 6621>>,
      <<6684, 6685>>, <<6751, 6751>>, <<6781, 6782>>, <<6794, 6799>>,
      <<6810, 6815>>, <<6830, 6831>>, <<6878, 6879>>, <<6892, 6911>>,
      <<6989, 6989>>, <<7156, 7163>>, <<7224, 7226>>, <<7242, 7244>>,
      <<7307, 7311>>, <<7355, 7356>>, <<7368, 7375>>, <<7419, 7423>>,
      <<7958, 7959>>, <<7966, 7967>>, <<8006, 8007>>, <<8014, 8015>>,
      <<8024, 8024>>, <<8026, 8026>>, <<8028, 8028>>, <<8030, 8030>>,
      <<8062, 8063>>, <<8117, 8117>>, <<8133, 8133>>, <<8148, 8149>>,
      <<8156, 8156>>, <<8176, 8177>>, <<8181, 8181>>, <<8191, 8207>>,
      <<8232, 8239>>, <<8287, 8303>>, <<8306, 8307>>, <<8335, 8335>>,
      <<8349, 8351>>, <<8386, 8399>>, <<8433, 8447>>, <<8588, 8591>>,
      <<9258, 9279>>, <<9291, 9311>>, <<11124, 11125>>, <<11508, 11512>>,
      <<11558, 11558>>, <<11560, 11564>>, <<11566, 11567>>, <<11624, 11630>>,
      <<11633, 11646>>, <<11671, 11679>>, <<11687, 11687>>, <<11695, 11695>>,
      <<11703, 11703>>, <<11711, 11711>>, <<11719, 11719>>, <<11727, 11727>>,
      <<11735, 11735>>, <<11743, 11743>>, <<11870, 11903>>, <<11930, 11930>>,
      <<12020, 12031>>, <<12246, 12271>>, <<12288, 12288>>, <<12352, 12352>>,
      <<12439, 12440>>, <<12544, 12548>>, <<12592, 12592>>, <<12687, 12687>>,
      <<12774, 12782>>, <<12831, 12831>>, <<42125, 42127>>, <<42183, 42191>>,
      <<42540, 42559>>, <<42744, 42751>>, <<42973, 42992>>, <<43053, 43055>>,
      <<43066, 43071>>, <<43128, 43135>>, <<43206, 43213>>, <<43226, 43231>>,
      <<43348, 43358>>, <<43389, 43391>>, <<43470, 43470>>, <<43482, 43485>>,
      <<43519, 43519>>, <<43575, 43583>>, <<43598, 43599>>, <<43610, 43611>>,
      <<43715, 43738>>, <<43767, 43776>>, <<43783, 43784>>, <<43791, 43792>>,
      <<43799, 43807>>, <<43815, 43815>>, <<43823, 43823>>, <<43884, 43887>>,
      <<44014, 44015>>, <<44026, 44031>>, <<55204, 55215>>, <<55239, 55242>>,
      <<55292, 63743>>, <<64110, 64111>>, <<64218, 64255>>, <<64263, 64274>>,
      <<64280, 64284>>, <<64311, 64311>>, <<64317, 64317>>, <<64319, 64319>>,
      <<64322, 64322>>, <<64325, 64325>>, <<64976, 65007>>, <<65050, 65055>>,
      <<65107, 65107>>, <<65127, 65127>>, <<65132, 65135>>, <<65141, 65141>>,
      <<65277, 65280>>, <<65471, 65473>>, <<65480, 65481>>, <<65488, 65489>>,
      <<65496, 65497>>, <<65501, 65503>>, <<65511, 65511>>, <<65519, 65531>>,
      <<65534, 65535>>, <<65548, 65548>>, <<65575, 65575>>, <<65595, 65595>>,
      <<65598, 65598>>, <<65614, 65615>>, <<65630, 65663>>, <<65787, 65791>>,
      <<65795, 65798>>, <<65844, 65846>>, <<65935, 65935>>, <<65949, 65951>>,
      <<65953, 65999>>, <<66046, 66175>>, <<66205, 66207>>, <<66257, 66271>>,
      <<66300, 66303>>, <<66340, 66348>>, <<66379, 66383>>, <<66427, 66431>>,
      <<66462, 66462>>, <<66500, 66503>>, <<66518, 66559>>, <<66718, 66719>>,
      <<66730, 66735>>, <<66772, 66775>>, <<66812, 66815>>, <<66856, 66863>>,
      <<66916, 66926>>, <<66939, 66939>>, <<66955, 66955>>, <<66963, 66963>>,
      <<66966, 66966>>, <<66978, 66978>>, <<66994, 66994>>, <<67002, 67002>>,
      <<67005, 67007>>, <<67060, 67071>>, <<67383, 67391>>, <<67414, 67423>>,
      <<67432, 67455>>, <<67462, 67462>>, <<67505, 67505>>, <<67515, 67583>>,
      <<67590, 67591>>, <<67593, 67593>>, <<67638, 67638>>, <<67641, 67643>>,
      <<67645, 67646>>, <<67670, 67670>>, <<67743, 67750>>, <<67760, 67807>>,
      <<67827, 67827>>, <<67830, 67834>>, <<67868, 67870>>, <<67898, 67902>>,
      <<67930, 67967>>, <<68024, 68027>>, <<68048, 68049>>, <<68100, 68100>>,
      <<68103, 68107>>, <<68116, 68116>>, <<68120, 68120>>, <<68150, 68151>>,
      <<68155, 68158>>, <<68169, 68175>>, <<68185, 68191>>, <<68256, 68287>>,
      <<68327, 68330>>, <<68343, 68351>>, <<68406, 68408>>, <<68438, 68439>>,
      <<68467, 68471>>, <<68498, 68504>>, <<68509, 68520>>, <<68528, 68607>>,
      <<68681, 68735>>, <<68787, 68799>>, <<68851, 68857>>, <<68904, 68911>>,
      <<68922, 68927>>, <<68966, 68968>>, <<68998, 69005>>, <<69008, 69215>>,
      <<69247, 69247>>, <<69290, 69290>>, <<69294, 69295>>, <<69298, 69313>>,
      <<69320, 69327>>, <<69337, 69369>>, <<69416, 69423>>, <<69466, 69487>>,
      <<69514, 69551>>, <<69580, 69599>>, <<69623, 69631>>, <<69710, 69713>>,
      <<69750, 69758>>, <<69821, 69821>>, <<69827, 69839>>, <<69865, 69871>>,
      <<69882, 69887>>, <<69941, 69941>>, <<69960, 69967>>, <<70007, 70015>>,
      <<70112, 70112>>, <<70133, 70143>>, <<70162, 70162>>, <<70210, 70271>>,
      <<70279, 70279>>, <<70281, 70281>>, <<70286, 70286>>, <<70302, 70302>>,
      <<70314, 70319>>, <<70379, 70383>>, <<70394, 70399>>, <<70404, 70404>>,
      <<70413, 70414>>, <<70417, 70418>>, <<70441, 70441>>, <<70449, 70449>>,
      <<70452, 70452>>, <<70458, 70458>>, <<70469, 70470>>, <<70473, 70474>>,
      <<70478, 70479>>, <<70481, 70486>>, <<70488, 70492>>, <<70500, 70501>>,
      <<70509, 70511>>, <<70517, 70527>>, <<70538, 70538>>, <<70540, 70541>>,
      <<70543, 70543>>, <<70582, 70582>>, <<70593, 70593>>, <<70595, 70596>>,
      <<70598, 70598>>, <<70603, 70603>>, <<70614, 70614>>, <<70617, 70624>>,
      <<70627, 70655>>, <<70748, 70748>>, <<70754, 70783>>, <<70856, 70863>>,
      <<70874, 71039>>, <<71094, 71095>>, <<71134, 71167>>, <<71237, 71247>>,
      <<71258, 71263>>, <<71277, 71295>>, <<71354, 71359>>, <<71370, 71375>>,
      <<71396, 71423>>, <<71451, 71452>>, <<71468, 71471>>, <<71495, 71679>>,
      <<71740, 71839>>, <<71923, 71934>>, <<71943, 71944>>, <<71946, 71947>>,
      <<71956, 71956>>, <<71959, 71959>>, <<71990, 71990>>, <<71993, 71994>>,
      <<72007, 72015>>, <<72026, 72095>>, <<72104, 72105>>, <<72152, 72153>>,
      <<72165, 72191>>, <<72264, 72271>>, <<72355, 72367>>, <<72441, 72447>>,
      <<72458, 72543>>, <<72552, 72639>>, <<72674, 72687>>, <<72698, 72703>>,
      <<72713, 72713>>, <<72759, 72759>>, <<72774, 72783>>, <<72813, 72815>>,
      <<72848, 72849>>, <<72872, 72872>>, <<72887, 72959>>, <<72967, 72967>>,
      <<72970, 72970>>, <<73015, 73017>>, <<73019, 73019>>, <<73022, 73022>>,
      <<73032, 73039>>, <<73050, 73055>>, <<73062, 73062>>, <<73065, 73065>>,
      <<73103, 73103>>, <<73106, 73106>>, <<73113, 73119>>, <<73130, 73135>>,
      <<73180, 73183>>, <<73194, 73439>>, <<73465, 73471>>, <<73489, 73489>>,
      <<73531, 73533>>, <<73563, 73647>>, <<73649, 73663>>, <<73714, 73726>>,
      <<74650, 74751>>, <<74863, 74863>>, <<74869, 74879>>, <<75076, 77711>>,
      <<77811, 77823>>, <<78896, 78911>>, <<78934, 78943>>, <<82939, 82943>>,
      <<83527, 90367>>, <<90426, 92159>>, <<92729, 92735>>, <<92767, 92767>>,
      <<92778, 92781>>, <<92863, 92863>>, <<92874, 92879>>, <<92910, 92911>>,
      <<92918, 92927>>, <<92998, 93007>>, <<93018, 93018>>, <<93026, 93026>>,
      <<93048, 93052>>, <<93072, 93503>>, <<93562, 93759>>, <<93851, 93855>>,
      <<93881, 93882>>, <<93908, 93951>>, <<94027, 94030>>, <<94088, 94094>>,
      <<94112, 94175>>, <<94181, 94191>>, <<94199, 94207>>, <<101590, 101630>>,
      <<101663, 101759>>, <<101875, 110575>>, <<110580, 110580>>,
      <<110588, 110588>>, <<110591, 110591>>, <<110883, 110897>>,
      <<110899, 110927>>, <<110931, 110932>>, <<110934, 110947>>,
      <<110952, 110959>>, <<111356, 113663>>, <<113771, 113775>>,
      <<113789, 113791>>, <<113801, 113807>>, <<113818, 113819>>,
      <<113824, 117759>>, <<118013, 118015>>, <<118452, 118457>>,
      <<118481, 118495>>, <<118513, 118527>>, <<118574, 118575>>,
      <<118599, 118607>>, <<118724, 118783>>, <<119030, 119039>>,
      <<119079, 119080>>, <<119155, 119162>>, <<119275, 119295>>,
      <<119366, 119487>>, <<119508, 119519>>, <<119540, 119551>>,
      <<119639, 119647>>, <<119673, 119807>>, <<119893, 119893>>,
      <<119965, 119965>>, <<119968, 119969>>, <<119971, 119972>>,
      <<119975, 119976>>, <<119981, 119981>>, <<119994, 119994>>,
      <<119996, 119996>>, <<120004, 120004>>, <<120070, 120070>>,
      <<120075, 120076>>, <<120085, 120085>>, <<120093, 120093>>,
      <<120122, 120122>>, <<120127, 120127>>, <<120133, 120133>>,
      <<120135, 120137>>, <<120145, 120145>>, <<120486, 120487>>,
      <<120780, 120781>>, <<121484, 121498>>, <<121504, 121504>>,
      <<121520, 122623>>, <<122655, 122660>>, <<122667, 122879>>,
      <<122887, 122887>>, <<122905, 122906>>, <<122914, 122914>>,
      <<122917, 122917>>, <<122923, 122927>>, <<122990, 123022>>,
      <<123024, 123135>>, <<123181, 123183>>, <<123198, 123199>>,
      <<123210, 123213>>, <<123216, 123535>>, <<123567, 123583>>,
      <<123642, 123646>>, <<123648, 124111>>, <<124154, 124367>>,
      <<124411, 124414>>, <<124416, 124607>>, <<124639, 124639>>,
      <<124662, 124669>>, <<124672, 124895>>, <<124903, 124903>>,
      <<124908, 124908>>, <<124911, 124911>>, <<124927, 124927>>,
      <<125125, 125126>>, <<125143, 125183>>, <<125260, 125263>>,
      <<125274, 125277>>, <<125280, 126064>>, <<126133, 126208>>,
      <<126270, 126463>>, <<126468, 126468>>, <<126496, 126496>>,
      <<126499, 126499>>, <<126501, 126502>>, <<126504, 126504>>,
      <<126515, 126515>>, <<126520, 126520>>, <<126522, 126522>>,
      <<126524, 126529>>, <<126531, 126534>>, <<126536, 126536>>,
      <<126538, 126538>>, <<126540, 126540>>, <<126544, 126544>>,
      <<126547, 126547>>, <<126549, 126550>>, <<126552, 126552>>,
      <<126554, 126554>>, <<126556, 126556>>, <<126558, 126558>>,
      <<126560, 126560>>, <<126563, 126563>>, <<126565, 126566>>,
      <<126571, 126571>>, <<126579, 126579>>, <<126584, 126584>>,
      <<126589, 126589>>, <<126591, 126591>>, <<126602, 126602>>,
      <<126620, 126624>>, <<126628, 126628>>, <<126634, 126634>>,
      <<126652, 126703>>, <<126706, 126975>>, <<127020, 127023>>,
      <<127124, 127135>>, <<127151, 127152>>, <<127168, 127168>>,
      <<127184, 127184>>, <<127222, 127231>>, <<127406, 127461>>,
      <<127491, 127503>>, <<127548, 127551>>, <<127561, 127567>>,
      <<127570, 127583>>, <<127590, 127743>>, <<128729, 128731>>,
      <<128749, 128751>>, <<128765, 128767>>, <<128986, 128991>>,
      <<129004, 129007>>, <<129009, 129023>>, <<129036, 129039>>,
      <<129096, 129103>>, <<129114, 129119>>, <<129160, 129167>>,
      <<129198, 129199>>, <<129212, 129215>>, <<129218, 129231>>,
      <<129241, 129279>>, <<129624, 129631>>, <<129646, 129647>>,
      <<129661, 129663>>, <<129675, 129677>>, <<129735, 129735>>,
      <<129737, 129740>>, <<129757, 129758>>, <<129771, 129774>>,
      <<129785, 129791>>, <<129939, 129939>>, <<130043, 131071>>,
      <<173792, 173823>>, <<178206, 178207>>, <<183982, 183983>>,
      <<191457, 191471>>, <<192094, 194559>>, <<195102, 196607>>,
      <<201547, 201551>>, <<210042, 917759>>, <<918000, 1114111>>>>

\* GraphemeExtend: the ranges of the code points with the property Grapheme_Extend
\* (the categories Mn and Me, and Other_Grapheme_Extend)
GraphemeExtend ==
    <<<<768, 879>>, <<1155, 1161>>, <<1425, 1469>>, <<1471, 1471>>,
      <<1473, 1474>>, <<1476, 1477>>, <<1479, 1479>>, <<1552, 1562>>,
      <<1611, 1631>>, <<1648, 1648>>, <<1750, 1756>>, <<1759, 1764>>,
      <<1767, 1768>>, <<1770, 1773>>, <<1809, 1809>>, <<1840, 1866>>,
      <<1958, 1968>>, <<2027, 2035>>, <<2045, 2045>>, <<2070, 2073>>,
      <<2075, 2083>>, <<2085, 2087>>, <<2089, 2093>>, <<2137, 2139>>,
      <<2199, 2207>>, <<2250, 2273>>, <<2275, 2306>>, <<2362, 2362>>,
      <<2364, 2364>>, <<2369, 2376>>, <<2381, 2381>>, <<2385, 2391>>,
      <<2402, 2403>>, <<2433, 2433>>, <<2492, 2492>>, <<2494, 2494>>,
      <<2497, 2500>>, <<2509, 2509>>, <<2519, 2519>>, <<2530, 2531>>,
      <<2558, 2558>>, <<2561, 2562>>, <<2620, 2620>>, <<2625, 2626>>,
      <<2631, 2632>>, <<2635, 2637>>, <<2641, 2641>>, <<2672, 2673>>,
      <<2677, 2677>>, <<2689, 2690>>, <<2748, 2748>>, <<2753, 2757>>,
      <<2759, 2760>>, <<2765, 2765>>, <<2786, 2787>>, <<2810, 2815>>,
      <<2817, 2817>>, <<2876, 2876>>, <<2878, 2879>>, <<2881, 2884>>,
      <<2893, 2893>>, <<2901, 2903>>, <<2914, 2915>>, <<2946, 2946>>,
      <<3006, 3006>>, <<3008, 3008>>, <<3021, 3021>>, <<3031, 3031>>,
      <<3072, 3072>>, <<3076, 3076>>, <<3132, 3132>>, <<3134, 3136>>,
      <<3142, 3144>>, <<3146, 3149>>, <<3157, 3158>>, <<3170, 3171>>,
      <<3201, 3201>>, <<3260, 3260>>, <<3263, 3264>>, <<3266, 3266>>,
      <<3270, 3272>>, <<3274, 3277>>, <<3285, 3286>>, <<3298, 3299>>,
      <<3328, 3329>>, <<3387, 3388>>, <<3390, 3390>>, <<3393, 3396>>,
      <<3405, 3405>>, <<3415, 3415>>, <<3426, 3427>>, <<3457, 3457>>,
      <<3530, 3530>>, <<3535, 3535>>, <<3538, 3540>>, <<3542, 3542>>,
      <<3551, 3551>>, <<3633, 3633>>, <<3636, 3642>>, <<3655, 3662>>,
      <<3761, 3761>>, <<3764, 3772>>, <<3784, 3790>>, <<3864, 3865>>,
      <<3893, 3893>>, <<3895, 3895>>, <<3897, 3897>>, <<3953, 3966>>,
      <<3968, 3972>>, <<3974, 3975>>, <<3981, 3991>>, <<3993, 4028>>,
      <<4038, 4038>>, <<4141, 4144>>, <<4146, 4151>>, <<4153, 4154>>,
      <<4157, 4158>>, <<4184, 4185>>, <<4190, 4192>>, <<4209, 4212>>,
      <<4226, 4226>>, <<4229, 4230>>, <<4237, 4237>>, <<4253, 4253>>,
      <<4957, 4959>>, <<5906, 5909>>, <<5938, 5940>>, <<5970, 5971>>,
      <<6002, 6003>>, <<6068, 6069>>, <<6071, 6077>>, <<6086, 6086>>,
      <<6089, 6099>>, <<6109, 6109>>, <<6155, 6157>>, <<6159, 6159>>,
      <<6277, 6278>>, <<6313, 6313>>, <<6432, 6434>>, <<6439, 6440>>,
      <<6450, 6450>>, <<6457, 6459>>, <<6679, 6680>>, <<6683, 6683>>,
      <<6742, 6742>>, <<6744, 6750>>, <<6752, 6752>>, <<6754, 6754>>,
      <<6757, 6764>>, <<6771, 6780>>, <<6783, 6783>>, <<6832, 6877>>,
      <<6880, 6891>>, <<6912, 6915>>, <<6964, 6973>>, <<6978, 6980>>,
      <<7019, 7027>>, <<7040, 7041>>, <<7074, 7077>>, <<7080, 7085>>,
      <<7142, 7142>>, <<7144, 7145>>, <<7149, 7149>>, <<7151, 7155>>,
      <<7212, 7219>>, <<7222, 7223>>, <<7376, 7378>>, <<7380, 7392>>,
      <<7394, 7400>>, <<7405, 7405>>, <<7412, 7412>>, <<7416, 7417>>,
      <<7616, 7679>>, <<8204, 8204>>, <<8400, 8432>>, <<11503, 11505>>,
      <<11647, 11647>>, <<11744, 11775>>, <<12330, 12335>>, <<12441, 12442>>,
      <<42607, 42610>>, <<42612, 42621>>, <<42654, 42655>>, <<42736, 42737>>,
      <<43010, 43010>>, <<43014, 43014>>, <<43019, 43019>>, <<43045, 43046>>,
      <<43052, 43052>>, <<43204, 43205>>, <<43232, 43249>>, <<43263, 43263>>,
      <<43302, 43309>>, <<43335, 43345>>, <<43347, 43347>>, <<43392, 43394>>,
      <<43443, 43443>>, <<43446, 43449>>, <<43452, 43453>>, <<43456, 43456>>,
      <<43493, 43493>>, <<43561, 43566>>, <<43569, 43570>>, <<43573, 43574>>,
      <<43587, 43587>>, <<43596, 43596>>, <<43644, 43644>>, <<43696, 43696>>,
      <<43698, 43700>>, <<43703, 43704>>, <<43710, 43711>>, <<43713, 43713>>,
      <<43756, 43757>>, <<43766, 43766>>, <<44005, 44005>>, <<44008, 44008>>,
      <<44013, 44013>>, <<64286, 64286>>, <<65024, 65039>>, <<65056, 65071>>,
      <<65438, 65439>>, <<66045, 66045>>, <<66272, 66272>>, <<66422, 66426>>,
      <<68097, 68099>>, <<68101, 68102>>, <<68108, 68111>>, <<68152, 68154>>,
      <<68159, 68159>>, <<68325, 68326>>, <<68900, 68903>>, <<68969, 68973>>,
      <<69291, 69292>>, <<69370, 69375>>, <<69446, 69456>>, <<69506, 69509>>,
      <<69633, 69633>>, <<69688, 69702>>, <<69744, 69744>>, <<69747, 69748>>,
      <<69759, 69761>>, <<69811, 69814>>, <<69817, 69818>>, <<69826, 69826>>,
      <<69888, 69890>>, <<69927, 69931>>, <<69933, 69940>>, <<70003, 70003>>,
      <<70016, 70017>>, <<70070, 70078>>, <<70080, 70080>>, <<70089, 70092>>,
      <<70095, 70095>>, <<70191, 70193>>, <<70196, 70199>>, <<70206, 70206>>,
      <<70209, 70209>>, <<70367, 70367>>, <<70371, 70378>>, <<70400, 70401>>,
      <<70459, 70460>>, <<70462, 70462>>, <<70464, 70464>>, <<70477, 70477>>,
      <<70487, 70487>>, <<70502, 70508>>, <<70512, 70516>>, <<70584, 70584>>,
      <<70587, 70592>>, <<70594, 70594>>, <<70597, 70597>>, <<70599, 70601>>,
      <<70606, 70608>>, <<70610, 70610>>, <<70625, 70626>>, <<70712, 70719>>,
      <<70722, 70724>>, <<70726, 70726>>, <<70750, 70750>>, <<70832, 70832>>,
      <<70835, 70840>>, <<70842, 70842>>, <<70845, 70845>>, <<70847, 70848>>,
      <<70850, 70851>>, <<71087, 71087>>, <<71090, 71093>>, <<71100, 71101>>,
      <<71103, 71104>>, <<71132, 71133>>, <<71219, 71226>>, <<71229, 71229>>,
      <<71231, 71232>>, <<71339, 71339>>, <<71341, 71341>>, <<71344, 71351>>,
      <<71453, 71453>>, <<71455, 71455>>, <<71458, 71461>>, <<71463, 71467>>,
      <<71727, 71735>>, <<71737, 71738>>, <<71984, 71984>>, <<71995, 71998>>,
      <<72003, 72003>>, <<72148, 72151>>, <<72154, 72155>>, <<72160, 72160>>,
      <<72193, 72202>>, <<72243, 72248>>, <<72251, 72254>>, <<72263, 72263>>,
      <<72273, 72278>>, <<72281, 72283>>, <<72330, 72342>>, <<72344, 72345>>,
      <<72544, 72544>>, <<72546, 72548>>, <<72550, 72550>>, <<72752, 72758>>,
      <<72760, 72765>>, <<72767, 72767>>, <<72850, 72871>>, <<72874, 72880>>,
      <<72882, 72883>>, <<72885, 72886>>, <<73009, 73014>>, <<73018, 73018>>,
      <<73020, 73021>>, <<73023, 73029>>, <<73031, 73031>>, <<73104, 73105>>,
      <<73109, 73109>>, <<73111, 73111>>, <<73459, 73460>>, <<73472, 73473>>,
      <<73526, 73530>>, <<73536, 73538>>, <<73562, 73562>>, <<78912, 78912>>,
      <<78919, 78933>>, <<90398, 90409>>, <<90413, 90415>>, <<92912, 92916>>,
      <<92976, 92982>>, <<94031, 94031>>, <<94095, 94098>>, <<94180, 94180>>,
      <<94192, 94193>>, <<113821, 113822>>, <<118528, 118573>>,
      <<118576, 118598>>, <<119141, 119145>>, <<119149, 119154>>,
      <<119163, 119170>>, <<119173, 119179>>, <<119210, 119213>>,
      <<119362, 119364>>, <<121344, 121398>>, <<121403, 121452>>,
      <<121461, 121461>>, <<121476, 121476>>, <<121499, 121503>>,
      <<121505, 121519>>, <<122880, 122886>>, <<122888, 122904>>,
      <<122907, 122913>>, <<122915, 122916>>, <<122918, 122922>>,
      <<123023, 123023>>, <<123184, 123190>>, <<123566, 123566>>,
      <<123628, 123631>>, <<124140, 124143>>, <<124398, 124399>>,
      <<124643, 124643>>, <<124646, 124646>>, <<124654, 124655>>,
      <<124661, 124661>>, <<125136, 125142>>, <<125252, 125258>>,
      <<917536, 917631>>, <<917760, 917999>>>>

\* core::unicode::printable::is_printable
IsPrintable(c) ==
    IF c < 32 THEN FALSE
    ELSE IF c < 127 THEN TRUE
    ELSE \A i \in 1..Len(NotPrintable) : c < NotPrintable[i][1] \/ c > NotPrintable[i][2]

\* char::is_grapheme_extended
IsGraphemeExtend(c) ==
    /\ c > 127
    /\ \E i \in 1..Len(GraphemeExtend) :
           GraphemeExtend[i][1] <= c /\ c <= GraphemeExtend[i][2]

\* char::escape_debug_ext as <str as Debug>::fmt calls it (the single quote is kept)
EscapeDebug(c) ==
    IF c = 0 THEN <<Ch.backslash, Ch.zero>>
    ELSE IF c = Ch.tab THEN <<Ch.backslash, Ch.t>>
    ELSE IF c = Ch.cr THEN <<Ch.backslash, 114>>
    ELSE IF c = Ch.lf THEN <<Ch.backslash, Ch.n>>
    ELSE IF c = Ch.backslash THEN <<Ch.backslash, Ch.backslash>>
    ELSE IF c = Ch.quote THEN <<Ch.backslash, Ch.quote>>
    ELSE IF IsGraphemeExtend(c) \/ ~IsPrintable(c)
         THEN <<Ch.backslash, 117, Ch.braceOn>> \o HexDigits(c) \o <<Ch.braceOff>>
    ELSE <<c>>

RECURSIVE EscapeDebugAll(_)
EscapeDebugAll(s) ==
    IF s = <<>> THEN <<>> ELSE EscapeDebug(Head(s)) \o EscapeDebugAll(Tail(s))

\* format!("{:?}", s) for a String
DebugStr(s) == <<Ch.quote>> \o EscapeDebugAll(s) \o <<Ch.quote>>

\* d.ddd e sci, the exponent form of the digits ds
Exponential(ds, sci) ==
    <<Head(ds)>> \o (IF Len(ds) > 1 THEN <<Ch.dot>> \o Tail(ds) ELSE <<>>)
                 \o <<Ch.e>> \o IntToString(sci)

\* format!("{:?}", x) for an f64: exponent form below 1e-4 and from 1e16 on,
\* otherwise the Display form with at least one fractional digit.
DebugDigits(x, ds) ==
    IF x.inf THEN Sign(x) \o Lit.inf
    ELSE IF x.digits # <<>> /\ (Len(ds) + x.exp - 1 >= 16 \/ Len(ds) + x.exp - 1 < -4)
         THEN Sign(x) \o Exponential(ds, Len(ds) + x.exp - 1)
    ELSE IF x.exp >= 0 THEN Sign(x) \o ds \o Repeat(Ch.zero, x.exp) \o <<Ch.dot, Ch.zero>>
    ELSE Sign(x) \o Fraction(ds, -x.exp)

DebugF64(x) == DebugDigits(x, IF x.digits = <<>> THEN <<Ch.zero>> ELSE x.digits)

Paren(name, inner) == name \o <<40>> \o inner \o <<41>>

\* #[derive(Debug)] on Token
DebugToken(tok) ==
    CASE tok.kind = "Comma" -> Lit.Comma
      [] tok.kind = "Colon" -> Lit.Colon
      [] tok.kind = "BracketOn" -> Lit.BracketOn
      [] tok.kind = "BracketOff" -> Lit.BracketOff
      [] tok.kind = "BraceOn" -> Lit.BraceOn
      [] tok.kind = "BraceOff" -> Lit.BraceOff
      [] tok.kind = "String" -> Paren(Lit.String, DebugStr(tok.s))
      [] tok.kind = "Number" -> Paren(Lit.Number, DebugF64(tok.n))
      [] tok.kind = "Boolen" -> Paren(Lit.Boolen, IF tok.b THEN Lit.true ELSE Lit.false)
      [] tok.kind = "Null" -> Lit.Null

\* JsonError::unexpected_token
unexpected_token(tok) == UnexpectedToken(DebugToken(tok))

(***************************************************************************)
(* Tokenizer (src/src/tokenizer.rs).  Every operation takes the characters *)
(* not yet consumed and returns its result with the characters left.       *)
(***************************************************************************)
Punct(kind) == [kind |-> kind]
TString(s) == [kind |-> "String", s |-> s]
TNumber(x) == [kind |-> "Number", n |-> x]
TBoolen(b) == [kind |-> "Boolen", b |-> b]
TNull == [kind |-> "Null"]

\* One pass of the loop of read_number ends in one of: more to read ("loop"), the
\* lexeme is over ("break"), an early return ("Err") or an unwrap of None ("Panic").
NumState(st, val, point, has_e, src) ==
    [st |-> st, value |-> val, point |-> point, has_e |-> has_e, source |-> src]

\* A read_number that takes a second marker for the end of the lexeme
SecondMarkerEndsLexeme(s) == NumState("break", s.value, s.point, s.has_e, s.source)

\* tokenizer.rs:88-90 and 97-99: a second exponent marker or a second '.'
SecondMarker(s) == NumState("Err", s.value, s.point, s.has_e, s.source)

\* tokenizer.rs:82-87: the sign that may follow the exponent marker
ExponentSign(val, point, rest) ==
    IF rest = <<>> THEN NumState("Panic", val, point, TRUE, rest)
    ELSE IF Head(rest) \in {Ch.minus, Ch.plus}
         THEN NumState("loop", Append(val, Head(rest)), point, TRUE, Tail(rest))
    ELSE NumState("loop", val, point, TRUE, rest)

\* tokenizer.rs:77-87: the first exponent marker
FirstExponent(s) ==
    ExponentSign(Append(s.value, Head(s.source)), s.point, Tail(s.source))

\* tokenizer.rs:71-101: `match n`
ReadNumberChar(s, n) ==
    IF IsDigit(n)
    THEN NumState("loop", Append(s.value, n), s.point, s.has_e, Tail(s.source))
    ELSE IF n \in {Ch.e, Ch.upE}
    THEN IF ~s.has_e THEN FirstExponent(s) ELSE SecondMarker(s)
    ELSE IF n = Ch.dot
    THEN IF ~s.point
         THEN NumState("loop", Append(s.value, n), TRUE, s.has_e, Tail(s.source))
         ELSE SecondMarker(s)
    ELSE NumState("break", s.value, s.point, s.has_e, s.source)

\* tokenizer.rs:70-102: one pass of `while let Some(&n) = self.source.peek()`
ReadNumberStep(s) ==
    IF s.source = <<>> THEN NumState("break", s.value, s.point, s.has_e, s.source)
    ELSE ReadNumberChar(s, Head(s.source))

RECURSIVE ReadNumberLoop(_)
ReadNumberAgain(s) == IF s.st = "loop" THEN ReadNumberLoop(s) ELSE s
ReadNumberLoop(s) == ReadNumberAgain(ReadNumberStep(s))

\* tokenizer.rs:104-107: the lexeme parsed as a double
ReadNumberEnd(s) ==
    CASE s.st = "Err" -> [res |-> Err(InvalidNumber), source |-> s.source]
      [] s.st = "Panic" -> [res |-> Panic, source |-> s.source]
      [] s.st = "break" -> [res |-> ParseF64(s.value), source |-> s.source]

\* Tokenizer::read_number
read_number(ch, src) ==
    ReadNumberEnd(ReadNumberLoop(NumState("loop", <<ch>>, FALSE, FALSE, src)))

\* tokenizer.rs:118-131: what one character inside a string does to (ret, escape)
StringChar(ch, ret, escape) ==
    IF ch = Ch.backslash
    THEN IF escape THEN [ret |-> Append(ret, ch), escape |-> FALSE]
         ELSE [ret |-> ret, escape |-> TRUE]
    ELSE [ret |-> Append(ret, ch), escape |-> FALSE]

RECURSIVE ReadStringLoop(_, _, _)
ReadStringOn(first, s, rest) == ReadStringLoop(first, s, rest)

\* tokenizer.rs:114-134: the loop of read_string, on s = (ret, escape)
ReadStringLoop(first, s, src) ==
    IF src = <<>> THEN [val |-> s.ret, source |-> src]
    ELSE IF Head(src) = first /\ s.escape = FALSE
         THEN [val |-> s.ret, source |-> Tail(src)]
    ELSE ReadStringOn(first, StringChar(Head(src), s.ret, s.escape), Tail(src))

\* Tokenizer::read_string
read_string(first, src) ==
    ReadStringLoop(first, [ret |-> <<>>, escape |-> FALSE], src)

RECURSIVE ReadSymbolLoop(_, _)
ReadSymbolLoop(symbol, src) ==
    IF src # <<>> /\ Head(src) >= Ch.a /\ Head(src) <= Ch.z
    THEN ReadSymbolLoop(Append(symbol, Head(src)), Tail(src))
    ELSE [val |-> symbol, source |-> src]

\* Tokenizer::read_symbol
read_symbol(ch, src) == ReadSymbolLoop(<<ch>>, src)

\* tokenizer.rs:38-43
Keyword(symbol) ==
    IF symbol = Lit.true THEN Ok(TBoolen(TRUE))
    ELSE IF symbol = Lit.false THEN Ok(TBoolen(FALSE))
    ELSE IF symbol = Lit.null THEN Ok(TNull)
    ELSE Err(UnexpectedToken(symbol))

\* tokenizer.rs:34: Token::Number(self.read_number(ch)?)
NumberToken(r) ==
    [res |-> IF r.res.status = "Ok" THEN Ok(TNumber(r.res.val)) ELSE r.res,
     source |-> r.source]

\* tokenizer.rs:35: Token::String(self.read_string(ch))
StringToken(r) == [res |-> Ok(TString(r.val)), source |-> r.source]

\* tokenizer.rs:36-44
KeywordToken(r) == [res |-> Keyword(r.val), source |-> r.source]

\* Tokenizer::next
RECURSIVE TokenizerNext(_)
NextChar(ch, rest) ==
    CASE ch = Ch.comma -> [res |-> Ok(Punct("Comma")), source |-> rest]
      [] ch = Ch.colon -> [res |-> Ok(Punct("Colon")), source |-> rest]
      [] ch = Ch.bracketOn -> [res |-> Ok(Punct("BracketOn")), source |-> rest]
      [] ch = Ch.bracketOff -> [res |-> Ok(Punct("BracketOff")), source |-> rest]
      [] ch = Ch.braceOn -> [res |-> Ok(Punct("BraceOn")), source |-> rest]
      [] ch = Ch.braceOff -> [res |-> Ok(Punct("BraceOff")), source |-> rest]
      [] IsDigit(ch) \/ ch = Ch.minus -> NumberToken(read_number(ch, rest))
      [] ch = Ch.quote -> StringToken(read_string(ch, rest))
      [] ch \in {Ch.t, Ch.f, Ch.n} -> KeywordToken(read_symbol(ch, rest))
      [] OTHER -> IF IsWhitespace(ch) THEN TokenizerNext(rest)
                  ELSE [res |-> Err(UnexpectedCharacter(ch)), source |-> rest]

TokenizerNext(src) ==
    IF src = <<>> THEN [res |-> Err(UnexpectedEndOfJson), source |-> src]
    ELSE NextChar(Head(src), Tail(src))

(***************************************************************************)
(* JsonValue (src/src/value.rs).  A BTreeMap<String, JsonValue> is the     *)
(* sequence of its entries in ascending key order, its keys distinct.      *)
(***************************************************************************)
JNull == [tag |-> "Null"]
JBoolen(b) == [tag |-> "Boolen", b |-> b]
JString(s) == [tag |-> "String", s |-> s]
JNumber(x) == [tag |-> "Number", n |-> x]
JArray(items) == [tag |-> "Array", items |-> items]
JObject(map) == [tag |-> "Object", map |-> map]

\* Ord for String: lexicographic on the UTF-8 bytes, which is the order of the
\* scalar values
RECURSIVE StrLess(_, _)
StrLess(x, y) ==
    IF y = <<>> THEN FALSE
    ELSE IF x = <<>> THEN TRUE
    ELSE IF Head(x) # Head(y) THEN Head(x) < Head(y)
    ELSE StrLess(Tail(x), Tail(y))

Entry(k, v) == [key |-> k, val |-> v]

\* A map that keeps its entries in the order of their first insertion
RECURSIVE InsertionOrdered(_, _, _)
InsertionOrdered(map, k, v) ==
    IF map = <<>> THEN <<Entry(k, v)>>
    ELSE IF Head(map).key = k THEN <<Entry(k, v)>> \o Tail(map)
    ELSE <<Head(map)>> \o InsertionOrdered(Tail(map), k, v)

\* BTreeMap::insert: the entry takes its place in key order; an equal key keeps
\* its place and gets the new value
RECURSIVE BTreeInsert(_, _, _)
BTreeInsert(map, k, v) ==
    IF map = <<>> THEN <<Entry(k, v)>>
    ELSE IF Head(map).key = k THEN <<Entry(k, v)>> \o Tail(map)
    ELSE IF StrLess(k, Head(map).key) THEN <<Entry(k, v)>> \o map
    ELSE <<Head(map)>> \o BTreeInsert(Tail(map), k, v)

\* #[derive(PartialEq)] on JsonValue
RECURSIVE JsonEq(_, _)
JsonEq(x, y) ==
    /\ x.tag = y.tag
    /\ CASE x.tag = "Number" -> F64Eq(x.n, y.n)
         [] x.tag = "Array" ->
              /\ Len(x.items) = Len(y.items)
              /\ \A i \in 1..Len(x.items) : JsonEq(x.items[i], y.items[i])
         [] x.tag = "Object" ->
              /\ Len(x.map) = Len(y.map)
              /\ \A i \in 1..Len(x.map) :
                    /\ x.map[i].key = y.map[i].key
                    /\ JsonEq(x.map[i].val, y.map[i].val)
         [] OTHER -> x = y

(***************************************************************************)
(* Parser (src/src/parser.rs).  Every operation takes the tokenizer's      *)
(* characters not yet consumed and returns its result with those left.     *)
(* An operation named ..On takes the result of the call before it: the `?` *)
(* of the source returns that result when it is no Ok.                     *)
(***************************************************************************)
\* Parser::consume
consume(src) == TokenizerNext(src)

\* `token => return Err(JsonError::unexpected_token(token))`
Unexpected(t) == [res |-> Err(unexpected_token(t.res.val)), source |-> t.source]

RECURSIVE parse_value(_, _)
RECURSIVE value(_)
RECURSIVE parse_object(_)
RECURSIVE ObjectLoop(_, _)
RECURSIVE parse_array(_)
RECURSIVE ArrayLoop(_, _)

\* parser.rs:55-56 and 72-73: ret.insert(key, self.value()?)
PairValueOn(ret, key, v) ==
    IF v.res.status # "Ok" THEN v
    ELSE [res |-> Ok(BTreeInsert(ret, key, v.res.val)), source |-> v.source]

\* A parse_object that takes any token after a key for the ':'
PairColonAny(ret, key, c) ==
    IF c.res.status # "Ok" THEN c ELSE PairValueOn(ret, key, value(c.source))

\* parser.rs:51-54 and 68-71: the token after a key is ':'
PairColonOn(ret, key, c) ==
    IF c.res.status # "Ok" THEN c
    ELSE IF c.res.val.kind = "Colon" THEN PairValueOn(ret, key, value(c.source))
    ELSE Unexpected(c)

\* ':' and the value of the pair, inserted under `key`; the result is the map
ObjectPair(ret, key, src) == PairColonOn(ret, key, consume(src))

\* the pair is done: on to the loop
ObjectPairOn(pair) ==
    IF pair.res.status # "Ok" THEN pair ELSE ObjectLoop(pair.res.val, pair.source)

\* parser.rs:64-67: the token after ',' is a key
ObjectKeyOn(ret, k) ==
    IF k.res.status # "Ok" THEN k
    ELSE IF k.res.val.kind = "String"
         THEN ObjectPairOn(ObjectPair(ret, k.res.val.s, k.source))
    ELSE Unexpected(k)

\* parser.rs:62-78: `match self.consume()?` in the loop of parse_object
ObjectLoopOn(ret, t) ==
    IF t.res.status # "Ok" THEN t
    ELSE IF t.res.val.kind = "Comma" THEN ObjectKeyOn(ret, consume(t.source))
    ELSE IF t.res.val.kind = "BraceOff"
         THEN [res |-> Ok(JObject(ret)), source |-> t.source]
    ELSE Unexpected(t)

\* parser.rs:61-81: the loop of parse_object
ObjectLoop(ret, src) == ObjectLoopOn(ret, consume(src))

\* parser.rs:48-59: `match self.consume()?` at the start of parse_object
ObjectFirstOn(t) ==
    IF t.res.status # "Ok" THEN t
    ELSE IF t.res.val.kind = "BraceOff"
         THEN [res |-> Ok(JObject(<<>>)), source |-> t.source]
    ELSE IF t.res.val.kind = "String"
         THEN ObjectPairOn(ObjectPair(<<>>, t.res.val.s, t.source))
    ELSE Unexpected(t)

\* Parser::parse_object
parse_object(src) == ObjectFirstOn(consume(src))

\* parser.rs:97: ret.push(self.value()?)
ArrayPushOn(ret, v) ==
    IF v.res.status # "Ok" THEN v
    ELSE ArrayLoop(Append(ret, v.res.val), v.source)

\* parser.rs:96-100: `match self.consume()?` in the loop of parse_array
ArrayLoopOn(ret, t) ==
    IF t.res.status # "Ok" THEN t
    ELSE IF t.res.val.kind = "Comma" THEN ArrayPushOn(ret, value(t.source))
    ELSE IF t.res.val.kind = "BracketOff"
         THEN [res |-> Ok(JArray(ret)), source |-> t.source]
    ELSE Unexpected(t)

\* parser.rs:95-103: the loop of parse_array
ArrayLoop(ret, src) == ArrayLoopOn(ret, consume(src))

\* parser.rs:90-93: `match self.consume()?` at the start of parse_array
ArrayFirstOn(t) ==
    IF t.res.status # "Ok" THEN t
    ELSE IF t.res.val.kind = "BracketOff"
         THEN [res |-> Ok(JArray(<<>>)), source |-> t.source]
    ELSE ArrayPushOn(<<>>, parse_value(t.res.val, t.source))

\* Parser::parse_array
parse_array(src) == ArrayFirstOn(consume(src))

\* Parser::parse_value
parse_value(tok, src) ==
    CASE tok.kind = "Null" -> [res |-> Ok(JNull), source |-> src]
      [] tok.kind = "Boolen" -> [res |-> Ok(JBoolen(tok.b)), source |-> src]
      [] tok.kind = "Number" -> [res |-> Ok(JNumber(tok.n)), source |-> src]
      [] tok.kind = "String" -> [res |-> Ok(JString(tok.s)), source |-> src]
      [] tok.kind = "BraceOn" -> parse_object(src)
      [] tok.kind = "BracketOn" -> parse_array(src)
      [] OTHER -> [res |-> Err(unexpected_token(tok)), source |-> src]

\* parser.rs:41-42
ValueOn(t) ==
    IF t.res.status # "Ok" THEN t ELSE parse_value(t.res.val, t.source)

\* Parser::value
value(src) == ValueOn(consume(src))

\* parse: one value from the start of the text; what follows it is not read
parse(str) == value(str).res

(***************************************************************************)
(* Generator (src/src/generator.rs).  `panicked` is set when an operation  *)
(* unwound; nothing is written after that.                                 *)
(***************************************************************************)
U8Max == 255

\* Generator::new
Generator(minify, spaces) ==
    [code |-> <<>>, minify |-> minify, dent |-> 0, spaces |-> spaces,
     panicked |-> FALSE]

\* Generator::value
gen_value(g) == g.code

\* Generator::write
write(g, s) == IF g.panicked THEN g ELSE [g EXCEPT !.code = @ \o s]

\* Generator::ln
ln(g) == IF g.panicked THEN g ELSE [g EXCEPT !.code = Append(@, Ch.lf)]

\* u8 arithmetic on the depth counter: a result outside 0..255 panics when overflow
\* checks are compiled in and wraps otherwise
U8Dent(g, n) ==
    IF n <= U8Max THEN [g EXCEPT !.dent = n]
    ELSE IF overflow_checks THEN [g EXCEPT !.panicked = TRUE]
    ELSE [g EXCEPT !.dent = n % (U8Max + 1)]

\* generator.rs:77-85: the move of the depth counter
Indent(g, tab) ==
    IF g.panicked THEN g
    ELSE CASE tab = "Stay" -> g
           [] tab = "Left" -> IF g.dent > 0 THEN [g EXCEPT !.dent = @ - 1] ELSE g
           [] tab = "Right" -> U8Dent(g, g.dent + 1)

\* generator.rs:88-90: `for _ in 0..(self.dent * self.spaces)`, the product a u8
Spaces(g, n) ==
    IF n <= U8Max THEN write(g, Repeat(Ch.space, n))
    ELSE IF overflow_checks THEN [g EXCEPT !.panicked = TRUE]
    ELSE write(g, Repeat(Ch.space, n % (U8Max + 1)))

\* generator.rs:86-91: the line break and the indentation
Break(g) ==
    IF g.panicked \/ g.minify THEN g ELSE Spaces(ln(g), g.dent * g.spaces)

\* Generator::new_line
new_line(g, tab) == Break(Indent(g, tab))

\* A write_string without the arm for the form feed
EscapeCharKeepsFormFeed(ch) ==
    IF ch = Ch.backslash \/ ch = Ch.quote THEN <<Ch.backslash, ch>>
    ELSE IF ch = Ch.lf THEN <<Ch.backslash, Ch.n>>
    ELSE IF ch = Ch.cr THEN <<Ch.backslash, 114>>
    ELSE IF ch = Ch.tab THEN <<Ch.backslash, Ch.t>>
    ELSE IF ch = Ch.bs THEN <<Ch.backslash, 98>>
    ELSE <<ch>>

\* generator.rs:98-109: what write_string writes for one character
EscapeChar(ch) ==
    IF ch = Ch.backslash \/ ch = Ch.quote THEN <<Ch.backslash, ch>>
    ELSE IF ch = Ch.lf THEN <<Ch.backslash, Ch.n>>
    ELSE IF ch = Ch.cr THEN <<Ch.backslash, 114>>
    ELSE IF ch = Ch.tab THEN <<Ch.backslash, Ch.t>>
    ELSE IF ch = Ch.ff THEN <<Ch.backslash, Ch.f>>
    ELSE IF ch = Ch.bs THEN <<Ch.backslash, 98>>
    ELSE <<ch>>

RECURSIVE WriteChars(_, _)
WriteChars(g, s) ==
    IF s = <<>> THEN g ELSE WriteChars(write(g, EscapeChar(Head(s))), Tail(s))

\* Generator::write_string
write_string(g, s) ==
    write(WriteChars(write(g, <<Ch.quote>>), s), <<Ch.quote>>)

\* generator.rs:161: the key of an entry, write(&format!("{:?}", key))
WriteKey(g, key) == write(g, DebugStr(key))

\* generator.rs:139 and 168: the line break before the closing bracket
CloseLine(g) == new_line(g, "Left")

RECURSIVE write_json(_, _)
RECURSIVE ArrayItems(_, _, _)
RECURSIVE ObjectEntries(_, _, _)

\* generator.rs:129-132: "," and, when not minifying, a space
ArrayComma(g) ==
    IF g.minify THEN write(g, <<Ch.comma>>) ELSE write(g, <<Ch.comma, Ch.space>>)

\* generator.rs:125-135: what goes before an item
ArrayLead(g, first) ==
    IF first THEN new_line(g, "Right") ELSE new_line(ArrayComma(g), "Stay")

\* generator.rs:124-137: the loop of write_array
ArrayItems(g, array, first) ==
    IF array = <<>> THEN g
    ELSE ArrayItems(write_json(ArrayLead(g, first), Head(array)), Tail(array), FALSE)

\* Generator::write_array
write_array(g, array) ==
    write(CloseLine(ArrayItems(write(g, <<Ch.bracketOn>>), array, TRUE)),
          <<Ch.bracketOff>>)

\* generator.rs:154-160: what goes before an entry
ObjectLead(g, first) ==
    IF first THEN new_line(g, "Right") ELSE new_line(write(g, <<Ch.comma>>), "Stay")

\* generator.rs:162-165: ":" and, when not minifying, a space
KeyColon(g) ==
    IF g.minify THEN write(g, <<Ch.colon>>) ELSE write(g, <<Ch.colon, Ch.space>>)

\* generator.rs:153-167: the loop of write_object, over the map in key order
ObjectEntries(g, object, first) ==
    IF object = <<>> THEN g
    ELSE ObjectEntries(
             write_json(KeyColon(WriteKey(ObjectLead(g, first), Head(object).key)),
                        Head(object).val),
             Tail(object), FALSE)

\* Generator::write_object
write_object(g, object) ==
    write(CloseLine(ObjectEntries(write(g, <<Ch.braceOn>>), object, TRUE)),
          <<Ch.braceOff>>)

\* Generator::write_json
write_json(g, v) ==
    CASE v.tag = "Null" -> write(g, Lit.null)
      [] v.tag = "Boolen" -> write(g, IF v.b THEN Lit.true ELSE Lit.false)
      [] v.tag = "String" -> write_string(g, v.s)
      [] v.tag = "Number" -> write(g, F64ToString(v.n))
      [] v.tag = "Array" -> write_array(g, v.items)
      [] v.tag = "Object" -> write_object(g, v.map)

\* `gen.write_json(..); gen.value()`: the text when write_json has returned; a
\* write_json that unwound unwinds its caller
Returned(g) == IF g.panicked THEN Panic ELSE gen_value(g)

\* stringify: Generator::new(true, 4)
stringify(v) == Returned(write_json(Generator(TRUE, 4), v))

\* JsonValue::dump: Generator::new(true, 0)
dump(v) == Returned(write_json(Generator(TRUE, 0), v))

\* object! { k1 => v1, ... }: the pairs inserted into a new BTreeMap, in the order
\* written
RECURSIVE InsertAll(_, _)
InsertAll(map, entries) ==
    IF entries = <<>> THEN map
    ELSE InsertAll(BTreeInsert(map, Head(entries).key, Head(entries).val),
                   Tail(entries))

object(entries) == JObject(InsertAll(<<>>, entries))

\* array![ ... ]
array(items) == JArray(items)

(***************************************************************************)
(* Inputs.  The texts and values the driving programs hand to the library. *)
(***************************************************************************)
MaxNumLen == 4
MaxItems == 2
MaxBlank == 3
MaxObjToks == 3
MaxStrLen == 2
MaxDepth == 2
MaxPairs == 3

\* Seqs(S, n): the sequences over S of length at most n
RECURSIVE Seqs(_, _)
Seqs(S, n) ==
    IF n <= 0 THEN {<<>>}
    ELSE LET shorter == Seqs(S, n - 1)
         IN  shorter \cup {Append(q, x) : q \in {r \in shorter : Len(r) = n - 1}, x \in S}

RECURSIVE Concat(_)
Concat(parts) == IF parts = <<>> THEN <<>> ELSE Head(parts) \o Concat(Tail(parts))

RECURSIVE Join(_, _)
Join(parts, sep) ==
    IF parts = <<>> THEN <<>>
    ELSE IF Len(parts) = 1 THEN Head(parts)
    ELSE Head(parts) \o sep \o Join(Tail(parts), sep)

\* Number-like texts: a digit or '-' and then digits, '.', exponent markers, signs
\* and a ',' that ends the lexeme
NumChars == {Ch.zero, 49, Ch.dot, Ch.e, Ch.upE, Ch.minus, Ch.plus, Ch.comma}
NumberTexts ==
    {<<c>> \o q : c \in {Ch.zero, 49, Ch.minus}, q \in Seqs(NumChars, MaxNumLen - 1)}

\* The parts of a JSON string literal: a plain character or one escape, with the
\* text the JSON grammar assigns to it
Item(t, d) == [text |-> t, decoded |-> d]
StringItems ==
    { Item(<<Ch.a>>, <<Ch.a>>),
      Item(<<Ch.backslash, Ch.quote>>, <<Ch.quote>>),
      Item(<<Ch.backslash, Ch.backslash>>, <<Ch.backslash>>),
      Item(<<Ch.backslash, Ch.slash>>, <<Ch.slash>>),
      Item(<<Ch.backslash, 98>>, <<Ch.bs>>),
      Item(<<Ch.backslash, Ch.f>>, <<Ch.ff>>),
      Item(<<Ch.backslash, Ch.n>>, <<Ch.lf>>),
      Item(<<Ch.backslash, 114>>, <<Ch.cr>>),
      Item(<<Ch.backslash, Ch.t>>, <<Ch.tab>>),
      Item(<<Ch.backslash, 117, 48, 48, 52, 49>>, <<65>>),
      Item(<<Ch.backslash, 117, 48, 48, 101, 57>>, <<233>>),
      Item(<<Ch.backslash, 117, 68, 56, 51, 52, Ch.backslash, 117, 68, 68, 49, 69>>,
           <<119070>>) }

ItemSeqs == Seqs(StringItems, MaxItems)

ItemsText(items) == Concat([i \in 1..Len(items) |-> items[i].text])
ItemsDecoded(items) == Concat([i \in 1..Len(items) |-> items[i].decoded])

\* String texts: an opening quote, items, and then a closing quote (and more), a
\* lone backslash, or nothing
StringTexts ==
    { <<Ch.quote>> \o ItemsText(items) \o close :
        items \in ItemSeqs,
        close \in {<<>>, <<Ch.quote>>, <<Ch.quote, Ch.comma>>, <<Ch.backslash>>} }

\* Texts of blanks and other characters in front of a token
BlankChars == {Ch.space, Ch.tab, Ch.lf, Ch.cr, Ch.vt, Ch.ff, Ch.nbsp, 120, 49}
BlankTexts == Seqs(BlankChars, MaxBlank) \ {<<>>}

\* Object texts: lexemes separated by one space
ObjLexemes ==
    { <<Ch.braceOn>>, <<Ch.braceOff>>, <<Ch.quote, Ch.a, Ch.quote>>, <<Ch.colon>>,
      <<Ch.comma>>, <<49>>, <<Ch.bracketOn, Ch.space, Ch.bracketOff>> }
ObjPrefixes ==
    { <<Ch.braceOn>>,
      <<Ch.braceOn, Ch.space, Ch.quote, Ch.a, Ch.quote, Ch.space, Ch.colon>>,
      <<Ch.braceOn, Ch.space, Ch.quote, Ch.a, Ch.quote, Ch.space, Ch.colon, Ch.space, 49>>,
      <<Ch.braceOn, Ch.space, Ch.quote, Ch.a, Ch.quote, Ch.space, Ch.colon, Ch.space, 49,
        Ch.space, Ch.comma>> }
\* {"a":1,}
TrailingComma ==
    <<Ch.braceOn, Ch.quote, Ch.a, Ch.quote, Ch.colon, 49, Ch.comma, Ch.braceOff>>
ObjectTexts ==
    { Join(<<pre>> \o lexemes, <<Ch.space>>) :
        pre \in ObjPrefixes, lexemes \in Seqs(ObjLexemes, MaxObjToks) }
    \cup {TrailingComma}

Texts == NumberTexts \cup StringTexts \cup BlankTexts \cup ObjectTexts

\* Values.  Numbers as `value as f64` and as literals give them.
Num(k) == JNumber(F64(k < 0, IF k < 0 THEN -k ELSE k, 0))
Str(chars) == JString(chars)

StrChars == {Ch.a, Ch.vt, Ch.quote, Ch.backslash, Ch.lf, Ch.cr, Ch.tab, Ch.bs, Ch.ff}
\* the string of the test stringify_escaped_characters (generator.rs:259)
EscapedCharacters == <<Ch.cr, Ch.lf, Ch.tab, Ch.bs, Ch.ff, Ch.backslash, Ch.quote>>
StringValues ==
    {Str(q) : q \in Seqs(StrChars, MaxStrLen)} \cup {Str(EscapedCharacters)}

NumberValues ==
    { Num(0), Num(1), Num(-1), Num(200), Num(123456),
      JNumber(F64(FALSE, 15, -1)), JNumber(F64(TRUE, 123, -6)),
      JNumber(F64(FALSE, 1234, -1)) }

Leaves == {JNull, JBoolen(TRUE), Num(1), Str(<<Ch.a>>), JArray(<<>>), JObject(<<>>)}

\* a value nested in an array or an object, first or second
Wraps(v) ==
    { array(<<v>>), array(<<Num(1), v>>),
      object(<<Entry(<<Ch.a>>, v)>>),
      object(<<Entry(<<98>>, v), Entry(<<Ch.a>>, Num(1))>>) }

RECURSIVE Nested(_)
Nested(d) ==
    IF d <= 0 THEN Leaves
    ELSE LET inner == Nested(d - 1)
         IN  Leaves \cup UNION {Wraps(v) : v \in inner}

\* Objects of one entry, the key any string
KeyValues == {object(<<Entry(k, JNull)>>) : k \in Seqs(StrChars, MaxStrLen)}

Values ==
    StringValues \cup NumberValues \cup {JBoolen(FALSE)} \cup Nested(MaxDepth)
        \cup KeyValues

\* The pairs of an object! invocation: distinct keys, each with a value, written in
\* any order
PairKeys == {<<Ch.a>>, <<Ch.a, 98>>, <<98>>, <<66>>}
PairValues ==
    {JNull, Num(1), object(<<Entry(<<98>>, Num(1)), Entry(<<66>>, JNull)>>)}
PairSeqs ==
    { ps \in Seqs({Entry(k, v) : k \in PairKeys, v \in PairValues}, MaxPairs) :
        /\ ps # <<>>
        /\ \A m, n \in 1..Len(ps) : ps[m].key = ps[n].key => m = n }

\* Generator::new(minify, spaces): indent widths of the u8 range, narrow and wide
IndentWidths == {0, 2, 4, 128}

(***************************************************************************)
(* The driving programs.                                                   *)
(*   SpecParse: a text is handed to Tokenizer::new and next() is called    *)
(*     on it again and again, or it is handed to parse.                    *)
(*   SpecGenerate: a value (given, or built by object!) is written by a    *)
(*     Generator, or handed to stringify and the text then to parse.       *)
(***************************************************************************)
InitParse ==
    /\ json \in Texts
    /\ source = json
    /\ prev = json
    /\ token = None
    /\ parsed = None
    /\ jsonValue = None
    /\ pairs = <<>>
    /\ pending = <<>>
    /\ gen = None
    /\ text = <<>>
    /\ overflow_checks = TRUE
    /\ pc = "text"

\* let t = tokenizer.next();
NextToken ==
    /\ pc \in {"text", "tokens"}
    /\ token.status # "Panic"
    /\ LET r == TokenizerNext(source)
       IN  /\ token' = r.res
           /\ source' = r.source
    /\ prev' = source
    /\ pc' = "tokens"
    /\ UNCHANGED <<json, parsed, jsonValue, pairs, pending, gen, text, overflow_checks>>

\* let ret = parse(json);
Parse ==
    /\ pc = "text"
    /\ parsed' = parse(json)
    /\ pc' = "parsed"
    /\ UNCHANGED <<json, source, prev, token, jsonValue, pairs, pending, gen, text,
                   overflow_checks>>

NextParse == NextToken \/ Parse

SpecParse == InitParse /\ [][NextParse]_vars

InitGenerate ==
    /\ json = <<>>
    /\ source = <<>>
    /\ prev = <<>>
    /\ token = None
    /\ parsed = None
    /\ \/ jsonValue \in Values /\ pairs = <<>> /\ pc = "new"
       \/ jsonValue = JObject(<<>>) /\ pairs \in PairSeqs /\ pc = "building"
    /\ pending = pairs
    /\ \E minify \in BOOLEAN, spaces \in IndentWidths : gen = Generator(minify, spaces)
    /\ text = <<>>
    /\ overflow_checks \in BOOLEAN

\* obj.insert($key.into(), $val.into()); for the next pair of the invocation
InsertPair ==
    /\ pc = "building"
    /\ jsonValue' = JObject(BTreeInsert(jsonValue.map, Head(pending).key,
                                        Head(pending).val))
    /\ pending' = Tail(pending)
    /\ pc' = IF pending' = <<>> THEN "new" ELSE "building"
    /\ UNCHANGED <<json, source, prev, token, parsed, pairs, gen, text,
                   overflow_checks>>

\* gen.write_json(&json);
WriteJson ==
    /\ pc = "new"
    /\ gen' = write_json(gen, jsonValue)
    /\ pc' = "written"
    /\ UNCHANGED <<json, source, prev, token, parsed, jsonValue, pairs, pending, text,
                   overflow_checks>>

\* let ret = gen.value();
GenValue ==
    /\ pc = "written"
    /\ ~gen.panicked
    /\ text' = gen_value(gen)
    /\ pc' = "done"
    /\ UNCHANGED <<json, source, prev, token, parsed, jsonValue, pairs, pending, gen,
                   overflow_checks>>

\* let ret = stringify(json);
Stringify ==
    /\ pc = "new"
    /\ text' = stringify(jsonValue)
    /\ pc' = IF write_json(Generator(TRUE, 4), jsonValue).panicked THEN "unwound"
             ELSE "stringified"
    /\ UNCHANGED <<json, source, prev, token, parsed, jsonValue, pairs, pending, gen,
                   overflow_checks>>

\* parse(&ret)
Reparse ==
    /\ pc = "stringified"
    /\ json' = text
    /\ parsed' = parse(text)
    /\ pc' = "reparsed"
    /\ UNCHANGED <<source, prev, token, jsonValue, pairs, pending, gen, text, overflow_checks>>

NextGenerate == InsertPair \/ WriteJson \/ GenValue \/ Stringify \/ Reparse

SpecGenerate == InitGenerate /\ [][NextGenerate]_vars

(***************************************************************************)
(* Properties.                                                             *)
(***************************************************************************)
IsPrefix(p, s) == Len(p) <= Len(s) /\ SubSeq(s, 1, Len(p)) = p

Range(q) == {q[i] : i \in 1..Len(q)}

\* The insignificant whitespace of the JSON grammar
JsonBlank == {Ch.space, Ch.tab, Ch.lf, Ch.cr}

\* The characters a token can begin with
StartsToken(c) ==
    \/ c \in {Ch.comma, Ch.colon, Ch.bracketOn, Ch.bracketOff, Ch.braceOn, Ch.braceOff,
              Ch.quote, Ch.minus, Ch.t, Ch.f, Ch.n}
    \/ IsDigit(c)

StartsNumber(s) == s # <<>> /\ (IsDigit(Head(s)) \/ Head(s) = Ch.minus)

\* ---------------------------------------------------------------- C1
\* C1: round trip.  For every value v of the bounded families (null, booleans,
\* strings over an alphabet with the quote, the backslash and the control
\* characters, exactly representable numbers, arrays, objects with unique keys),
\* parse(stringify(v)) returns Ok with a value equal to v.
C1_RoundTrip ==
    pc = "reparsed" => (parsed.status = "Ok" /\ JsonEq(parsed.val, jsonValue))

\* ---------------------------------------------------------------- C2
\* x sorts before y in the lexicographic order of the keys
KeyBefore(x, y) ==
    \E i \in 1..Len(y) :
        /\ \A j \in 1..(i - 1) : j <= Len(x) /\ x[j] = y[j]
        /\ (i > Len(x) \/ x[i] < y[i])

\* The minified text of the pair values, with the members of every object in
\* ascending order of their keys
RECURSIVE CanonText(_)
RECURSIVE CanonMembers(_)
CanonText(v) ==
    CASE v.tag = "Null" -> Lit.null
      [] v.tag = "Number" -> IF v = Num(1) THEN <<49>> ELSE <<>>
      [] v.tag = "Object" ->
           <<Ch.braceOn>> \o CanonMembers(Range(v.map)) \o <<Ch.braceOff>>

CanonMembers(S) ==
    IF S = {} THEN <<>>
    ELSE LET m == CHOOSE e \in S : \A o \in S \ {e} : KeyBefore(e.key, o.key)
         IN  <<Ch.quote>> \o m.key \o <<Ch.quote, Ch.colon>> \o CanonText(m.val)
                 \o (IF S = {m} THEN <<>> ELSE <<Ch.comma>> \o CanonMembers(S \ {m}))

\* C2: determinism of key order.  Whatever the order in which object! inserted its
\* pairs, stringify gives the one text in which the members of every object are in
\* ascending lexicographic order of their keys.
C2_KeyOrder ==
    (pc = "stringified" /\ pairs # <<>>) =>
        text = <<Ch.braceOn>> \o CanonMembers(Range(pairs)) \o <<Ch.braceOff>>

\* three pairs written b, a, B: the text has them as B, a, b
C2_Witness ==
    /\ pc = "stringified"
    /\ pairs = <<Entry(<<98>>, Num(1)), Entry(<<Ch.a>>, JNull), Entry(<<66>>, Num(1))>>
    /\ text = <<123, 34, 66, 34, 58, 49, 44, 34, 97, 34, 58, 110, 117, 108, 108, 44,
                34, 98, 34, 58, 49, 125>>

\* ---------------------------------------------------------------- C3
\* A string literal: the items between two quotes
Literal(items) == <<Ch.quote>> \o ItemsText(items) \o <<Ch.quote>>

\* C3: tokenizer string decoding.  When the text next() reads begins with a string
\* literal, the String token holds the decoded text of its items: the character
\* itself for \" \\ \/, the control character for \b \f \n \r \t, the code point for
\* \uXXXX and the combined scalar value for a surrogate pair.
C3_StringDecoding ==
    \A items \in ItemSeqs :
        (pc = "tokens" /\ IsPrefix(Literal(items), prev)) =>
            token = Ok(TString(ItemsDecoded(items)))

\* ---------------------------------------------------------------- C4
\* s holds a quote that no backslash escapes
RECURSIVE Closes(_, _)
Closes(s, escaped) ==
    IF s = <<>> THEN FALSE
    ELSE IF escaped THEN Closes(Tail(s), FALSE)
    ELSE IF Head(s) = Ch.quote THEN TRUE
    ELSE Closes(Tail(s), Head(s) = Ch.backslash)

Unterminated(s) == s # <<>> /\ Head(s) = Ch.quote /\ ~Closes(Tail(s), FALSE)

\* C4: unterminated string.  When the input ends after an opening quote and before
\* an unescaped closing quote, next() and parse fail with UnexpectedEndOfJson.
C4_UnterminatedString ==
    /\ (pc = "tokens" /\ Unterminated(prev)) => token = Err(UnexpectedEndOfJson)
    /\ (pc = "parsed" /\ Unterminated(json)) => parsed = Err(UnexpectedEndOfJson)

\* ---------------------------------------------------------------- C5, C6
\* The number lexeme at the front of s, as the grammar has it: the first character,
\* then digits, '.', exponent markers and a sign right after an exponent marker.
\* `second` is the place of the first second '.' or second exponent marker (0 when
\* there is none), `end` the place of the last character of the lexeme.
RECURSIVE Scan(_, _, _, _, _)
Scan(s, i, dots, exps, afterExp) ==
    IF i > Len(s) THEN [second |-> 0, end |-> i - 1]
    ELSE IF IsDigit(s[i]) THEN Scan(s, i + 1, dots, exps, FALSE)
    ELSE IF s[i] = Ch.dot
         THEN IF dots = 1 THEN [second |-> i, end |-> i - 1]
              ELSE Scan(s, i + 1, 1, exps, FALSE)
    ELSE IF s[i] \in {Ch.e, Ch.upE}
         THEN IF exps = 1 THEN [second |-> i, end |-> i - 1]
              ELSE Scan(s, i + 1, dots, 1, TRUE)
    ELSE IF s[i] \in {Ch.minus, Ch.plus} /\ afterExp THEN Scan(s, i + 1, dots, exps, FALSE)
    ELSE [second |-> 0, end |-> i - 1]

Lexeme(s) == Scan(s, 2, 0, 0, FALSE)

\* C5: every call completes or fails.  parse returns Ok or Err for every text, also
\* one that ends inside a number lexeme, and a number lexeme that was accumulated
\* but is no double yields InvalidNumber.
C5_CompletesOrFails ==
    pc = "parsed" =>
        /\ parsed.status \in {"Ok", "Err"}
        /\ ( /\ StartsNumber(json)
             /\ Lexeme(json).second = 0
             /\ ParseF64(SubSeq(json, 1, Lexeme(json).end)).status = "Err" )
           => parsed = Err(InvalidNumber)

\* C6: number grammar errors.  When the number lexeme that next() reads has a second
\* '.' or a second exponent marker, next() fails with InvalidNumber on meeting it
\* (the marker is the next character left to read) and no Number token is produced;
\* parse fails the same way.
C6_SecondMarker ==
    /\ (pc = "tokens" /\ StartsNumber(prev) /\ Lexeme(prev).second > 0) =>
          /\ token = Err(InvalidNumber)
          /\ source = Drop(prev, Lexeme(prev).second - 1)
    /\ (pc = "parsed" /\ StartsNumber(json) /\ Lexeme(json).second > 0) =>
          parsed = Err(InvalidNumber)

\* 1e1E: the second exponent marker is met
C6_Witness ==
    /\ pc = "tokens"
    /\ prev = <<49, Ch.e, 49, Ch.upE>>
    /\ token = Err(InvalidNumber)
    /\ source = <<Ch.upE>>

\* ---------------------------------------------------------------- C7
\* The tokens of a text, up to the first failure of next()
RECURSIVE TokenKinds(_)
TokenKinds(src) ==
    LET r == TokenizerNext(src)
    IN  IF r.res.status # "Ok" THEN <<>> ELSE <<r.res.val.kind>> \o TokenKinds(r.source)

\* The grammar, on the kinds ks of the tokens from place i on: the place after the
\* value when ks has one there, 0 when a token departs from the grammar, -1 when the
\* tokens run out first.
\*   value  = Null | Boolen | Number | String | object | array
\*   object = '{' '}' | '{' String ':' value (',' String ':' value)* '}'
\*   array  = '[' ']' | '[' value (',' value)* ']'
RECURSIVE GValue(_, _)
RECURSIVE GMember(_, _)
RECURSIVE GElements(_, _)

GAfterPair(ks, j) ==
    IF j > Len(ks) THEN -1
    ELSE IF ks[j] = "BraceOff" THEN j + 1
    ELSE IF ks[j] # "Comma" THEN 0
    ELSE IF j + 1 > Len(ks) THEN -1
    ELSE IF ks[j + 1] = "String" THEN GMember(ks, j + 2)
    ELSE 0

GMember(ks, i) ==
    IF i > Len(ks) THEN -1
    ELSE IF ks[i] # "Colon" THEN 0
    ELSE LET j == GValue(ks, i + 1) IN IF j <= 0 THEN j ELSE GAfterPair(ks, j)

GObject(ks, i) ==
    IF i > Len(ks) THEN -1
    ELSE IF ks[i] = "BraceOff" THEN i + 1
    ELSE IF ks[i] = "String" THEN GMember(ks, i + 1)
    ELSE 0

GElements(ks, i) ==
    LET j == GValue(ks, i)
    IN  IF j <= 0 THEN j
        ELSE IF j > Len(ks) THEN -1
        ELSE IF ks[j] = "BracketOff" THEN j + 1
        ELSE IF ks[j] = "Comma" THEN GElements(ks, j + 1)
        ELSE 0

GArray(ks, i) ==
    IF i > Len(ks) THEN -1
    ELSE IF ks[i] = "BracketOff" THEN i + 1
    ELSE GElements(ks, i)

GValue(ks, i) ==
    IF i > Len(ks) THEN -1
    ELSE IF ks[i] \in {"Null", "Boolen", "Number", "String"} THEN i + 1
    ELSE IF ks[i] = "BraceOn" THEN GObject(ks, i + 1)
    ELSE IF ks[i] = "BracketOn" THEN GArray(ks, i + 1)
    ELSE 0

\* C7: object grammar.  For a text that begins with '{', parse returns Ok exactly
\* when the tokens follow the object grammar, and fails with UnexpectedToken when a
\* token departs from it.
C7_ObjectGrammar ==
    (pc = "parsed" /\ json # <<>> /\ Head(json) = Ch.braceOn) =>
        LET g == GValue(TokenKinds(json), 1)
        IN  /\ parsed.status = "Ok" <=> g > 0
            /\ g = 0 => (parsed.status = "Err" /\ parsed.err.kind = "UnexpectedToken")

\* {"a":1,} fails with UnexpectedToken
C7_Witness ==
    /\ pc = "parsed"
    /\ json = TrailingComma
    /\ parsed = Err(UnexpectedToken(Lit.BraceOff))

\* ---------------------------------------------------------------- C8
\* The place of the first character of s that is no JSON whitespace, 0 if none
RECURSIVE FirstSolid(_, _)
FirstSolid(s, i) ==
    IF i > Len(s) THEN 0
    ELSE IF s[i] \in JsonBlank THEN FirstSolid(s, i + 1)
    ELSE i

\* C8: whitespace.  next() skips space, tab, line feed and carriage return only: when
\* the first character after them can begin no token, next() fails with
\* UnexpectedCharacter of that character.
C8_Whitespace ==
    (pc = "tokens" /\ FirstSolid(prev, 1) > 0
                   /\ ~StartsToken(prev[FirstSolid(prev, 1)])) =>
        token = Err(UnexpectedCharacter(prev[FirstSolid(prev, 1)]))

\* ---------------------------------------------------------------- C9
\* The two-character escapes of the output, and the character itself otherwise
ShortEscape(c) ==
    CASE c = Ch.quote -> <<Ch.backslash, Ch.quote>>
      [] c = Ch.backslash -> <<Ch.backslash, Ch.backslash>>
      [] c = Ch.lf -> <<Ch.backslash, 110>>
      [] c = Ch.cr -> <<Ch.backslash, 114>>
      [] c = Ch.tab -> <<Ch.backslash, 116>>
      [] c = Ch.ff -> <<Ch.backslash, 102>>
      [] c = Ch.bs -> <<Ch.backslash, 98>>
      [] OTHER -> <<c>>

Quoted(s) ==
    <<Ch.quote>> \o Concat([i \in 1..Len(s) |-> ShortEscape(s[i])]) \o <<Ch.quote>>

\* "\r\n\t\b\f\\\""
EscapedCharactersText ==
    <<34, 92, 114, 92, 110, 92, 116, 92, 98, 92, 102, 92, 92, 92, 34, 34>>

\* C9: string escaping on output.  For a string value the generator, minifying or
\* not, emits a quote, the short escape or the character itself for each character
\* in order, and a quote; stringify of CR LF TAB BS FF backslash quote is exactly
\* "\r\n\t\b\f\\\"".
C9_StringEscaping ==
    /\ (pc = "stringified" /\ jsonValue.tag = "String") => text = Quoted(jsonValue.s)
    /\ (pc = "written" /\ jsonValue.tag = "String") => gen.code = Quoted(jsonValue.s)
    /\ (pc = "stringified" /\ jsonValue = Str(EscapedCharacters)) =>
          text = EscapedCharactersText

C9_Witness ==
    /\ pc = "stringified"
    /\ jsonValue = Str(EscapedCharacters)
    /\ text = EscapedCharactersText

\* ---------------------------------------------------------------- C10
\* The place from i on of the first character of s that is no line feed and no
\* space, 0 if none
RECURSIVE NextInk(_, _)
NextInk(s, i) ==
    IF i > Len(s) THEN 0
    ELSE IF s[i] \in {Ch.lf, Ch.space} THEN NextInk(s, i + 1)
    ELSE i

\* every bracket that its closing bracket follows with only line feeds and spaces
\* between them is followed by it directly
EmptyTight(s, open, close) ==
    \A i \in 1..Len(s) :
        (s[i] = open /\ NextInk(s, i + 1) > 0 /\ s[NextInk(s, i + 1)] = close) =>
            s[i + 1] = close

\* C10: empty containers.  Whatever the generator's configuration and the nesting
\* depth, an empty array is emitted as [] and an empty object as {}, nothing between
\* the brackets.  (No string of the values written holds a bracket or a space.)
C10_EmptyContainers ==
    pc = "written" =>
        /\ EmptyTight(gen.code, Ch.bracketOn, Ch.bracketOff)
        /\ EmptyTight(gen.code, Ch.braceOn, Ch.braceOff)

\* ---------------------------------------------------------------- C11
\* The calls of write_json that write_json(g, v) makes, itself included: the
\* generator as each call finds it, the value it writes and the number d of arrays
\* and objects open around it.
RECURSIVE Calls(_, _, _)
RECURSIVE ItemCalls(_, _, _, _)
RECURSIVE EntryCalls(_, _, _, _)
Calls(g, v, d) ==
    {[g |-> g, v |-> v, d |-> d]} \cup
    (CASE v.tag = "Array" -> ItemCalls(write(g, <<Ch.bracketOn>>), v.items, TRUE, d + 1)
       [] v.tag = "Object" -> EntryCalls(write(g, <<Ch.braceOn>>), v.map, TRUE, d + 1)
       [] OTHER -> {})

ItemCalls(g, items, first, d) ==
    IF items = <<>> THEN {}
    ELSE LET lead == ArrayLead(g, first)
         IN  Calls(lead, Head(items), d)
                 \cup ItemCalls(write_json(lead, Head(items)), Tail(items), FALSE, d)

EntryCalls(g, entries, first, d) ==
    IF entries = <<>> THEN {}
    ELSE LET lead == KeyColon(WriteKey(ObjectLead(g, first), Head(entries).key))
         IN  Calls(lead, Head(entries).val, d)
                 \cup EntryCalls(write_json(lead, Head(entries).val), Tail(entries),
                                 FALSE, d)

\* The calls made by the write_json that led to the state
WrittenCalls == Calls(Generator(gen.minify, gen.spaces), jsonValue, 0)

\* C11: generation never fails.  For every value, either minify setting and every
\* indent width, write_json runs to completion, and the depth counter and the
\* product depth * indent width that new_line computes stay within 0..255.
C11_NeverFails ==
    pc = "written" =>
        /\ ~gen.panicked
        /\ \A c \in WrittenCalls :
              /\ c.g.dent <= U8Max
              /\ ~c.g.minify => c.g.dent * c.g.spaces <= U8Max

\* ---------------------------------------------------------------- C12
\* What the generator g writes before the first key of an object at depth 0
FirstKeyLead(g) ==
    <<Ch.braceOn>> \o (IF g.minify THEN <<>> ELSE <<Ch.lf>> \o Repeat(Ch.space, g.spaces))

\* C12: object keys are escaped as string values are.  For an object of one entry,
\* the text write_object emits for the key is the text write_string emits for the
\* string value of the same characters, and ':' follows it.
C12_KeyEscaping ==
    (pc = "written" /\ jsonValue.tag = "Object" /\ Len(jsonValue.map) = 1) =>
        IsPrefix(FirstKeyLead(gen)
                     \o write_string(Generator(gen.minify, gen.spaces),
                                     jsonValue.map[1].key).code
                     \o <<Ch.colon>>,
                 gen.code)

\* ---------------------------------------------------------------- C13
\* A generator of indent width w, not minifying, at depth d
PrettyAt(w, d) == [Generator(FALSE, w) EXCEPT !.dent = d]

\* One entry of a pretty-printed object at depth d: the line break, (d + 1) * w
\* spaces, the quoted key, ':', a space and the text generated for the value
EntryLine(e, d, w) ==
    <<Ch.lf>> \o Repeat(Ch.space, (d + 1) * w) \o Quoted(e.key)
        \o <<Ch.colon, Ch.space>> \o write_json(PrettyAt(w, d + 1), e.val).code

\* A pretty-printed object at depth d: '{', the entries separated by ',', and '}'
\* on a line of its own after d * w spaces
ObjectLayout(map, d, w) ==
    <<Ch.braceOn>>
        \o Join([i \in 1..Len(map) |-> EntryLine(map[i], d, w)], <<Ch.comma>>)
        \o <<Ch.lf>> \o Repeat(Ch.space, d * w) \o <<Ch.braceOff>>

\* C13: pretty-printed object layout.  With minify = false and indent width w, what
\* write_json writes for a non-empty object at depth d of the value is '{', each
\* entry on a line of its own after (d + 1) * w spaces as "key": value, ',' between
\* entries right before the line break, and '}' on a line of its own after d * w
\* spaces.
C13_ObjectLayout ==
    (pc = "written" /\ ~gen.minify) =>
        \A c \in WrittenCalls :
            (c.v.tag = "Object" /\ c.v.map # <<>>) =>
                write_json(c.g, c.v).code
                    = c.g.code \o ObjectLayout(c.v.map, c.d, gen.spaces)

\* ---------------------------------------------------------------- C14
\* C14: the indent depth is balanced.  When a call of write_json returns, the depth
\* counter is what the call found, and every call that write_json makes after a
\* new_line finds the depth counter equal to the number of arrays and objects that
\* are open; also with empty arrays and objects in the value.
C14_DepthBalanced ==
    pc = "written" =>
        /\ gen.dent = 0
        /\ \A c \in WrittenCalls :
              /\ write_json(c.g, c.v).dent = c.g.dent
              /\ c.g.dent = c.d

====
